---- MODULE Spec2Model ----
(***************************************************************************)
(* Model of the map-collection persistence layer (MapStorage, over the     *)
(* browser's localStorage) and of the editor's save handlers.              *)
(*                                                                         *)
(* Conventions. A JavaScript value that is falsy because it is missing     *)
(* (undefined, null, the empty string, 0) is the number 0 for ids,         *)
(* timestamps and versions, and the empty string for titles.  Timestamps   *)
(* (`created`, `modified`, the clock) are naturals ordered as the dates    *)
(* they stand for.  Identifiers are naturals; generateMapId hands out      *)
(* nextId, nextId + 1, ... (the timestamp-plus-random suffix of the code   *)
(* is taken never to repeat).                                              *)
(***************************************************************************)
EXTENDS Integers, Sequences, FiniteSets, TLC

(***************************************************************************)
(* Bounds of the model.                                                    *)
(***************************************************************************)
\* The retention cap. The program's value is 50 (map-storage.js:19); the
\* model runs the same code with a small cap so that every order of
\* insertion around the cap is enumerated.
MAX_MAPS == 2
\* Identifiers generateMapId may hand out: 1..MaxIds.
MaxIds == 3
\* `created` timestamps of the records handed to save and import: 1..MaxCreated.
MaxCreated == 2
\* The clock runs over 1..MaxNow.
MaxNow == 2

(***************************************************************************)
(* Program constants.                                                      *)
(***************************************************************************)
STORAGE_KEY == "mapCreator_maps"
SETTINGS_KEY == "mapCreator_settings"
\* '1.0.0' is version 1; 0 is a missing version, 2 any other version.
VERSION == 1
\* handleStorageQuotaExceeded evicts only when more than this many maps.
QUOTA_MIN_MAPS == 10
\* ... and then evicts floor(length * 0.25) = length \div QUOTA_DIVISOR maps.
QUOTA_DIVISOR == 4

VARIABLES
    localStorage,   \* key -> stored item
    nextId,         \* the next identifier generateMapId produces
    now,            \* the clock (new Date())
    ret,            \* what the last operation did and returned
    inserted,       \* history: `created` of every map inserted (cap scenario)
    editor          \* the editor page: working copy and toasts shown

vars == <<localStorage, nextId, now, ret, inserted, editor>>

(***************************************************************************)
(* Data.                                                                   *)
(***************************************************************************)
\* A marker as the editor builds it (map-editor.js:358-371).
Marker(id, titre, lat, lon, created) ==
    [id |-> id, titre |-> titre, lat |-> lat, lon |-> lon,
     couleur |-> "red", icone |-> "pin", created |-> created]

\* A map record as the editor builds it (initializeNewMap).
MapRec(id, title, created, markers) ==
    [id |-> id, title |-> title, center |-> 1, zoom |-> 6, layer |-> "standard",
     markers |-> markers, created |-> created, modified |-> created,
     version |-> 0, imported |-> 0]

\* The stored item of a key: absent (getItem returns null), a text JSON.parse
\* rejects, a JSON value that is not an array, or a JSON array of records.
AbsentItem == [kind |-> "absent", maps |-> <<>>]
UnparseableItem == [kind |-> "unparseable", maps |-> <<>>]
NonSeqItem == [kind |-> "nonseq", maps |-> <<>>]
SeqItem(maps) == [kind |-> "seq", maps |-> maps]

\* JSON.stringify of an array of map records, as setItem stores it.
Stringify(maps) == SeqItem(maps)

(***************************************************************************)
(* Validator.                                                              *)
(***************************************************************************)
\* A coordinate: a number (an integer of degrees), NaN, or a value of
\* another type (a string).
Num(v) == [type |-> "number", value |-> v]
NaNValue == [type |-> "NaN", value |-> 0]
StringValue(v) == [type |-> "string", value |-> v]

\* typeof x === 'number' && !isNaN(x)
IsNumber(x) == x.type = "number"

validateMarkerData(markerData) ==
    /\ markerData.id # 0
    /\ markerData.titre # ""
    /\ IsNumber(markerData.lat)
    /\ IsNumber(markerData.lon)
    /\ markerData.couleur # ""
    /\ markerData.icone # ""

\* Mutant: `modified` is not looked at.
validateMapData_SkipsModified(mapData) ==
    /\ mapData.id > 0
    /\ mapData.title # ""
    /\ mapData.created # 0

\* An id that is not a string (a number in the stored JSON) is a negative id.
validateMapData(mapData) ==
    /\ mapData.id > 0
    /\ mapData.title # ""
    /\ mapData.created # 0
    /\ mapData.modified # 0

(***************************************************************************)
(* Reading.                                                                *)
(***************************************************************************)
\* env is what the store does during one operation: "ok", "quota" (setItem
\* throws QuotaExceededError, reads work) or "unavailable" (every access
\* throws).
Envs == {"ok", "quota", "unavailable"}

\* The try block of getAllMaps: the error it throws ("" when none) and the
\* array it returns.  getItem throws when the store is closed, JSON.parse
\* on a text that is not JSON, and `maps.filter` on a value that is no array.
ReadMaps(ls, env) ==
    LET item == ls[STORAGE_KEY] IN
    CASE env = "unavailable" -> [error |-> "SecurityError", maps |-> <<>>]
      [] item.kind = "absent" -> [error |-> "", maps |-> <<>>]
      [] item.kind = "unparseable" -> [error |-> "SyntaxError", maps |-> <<>>]
      [] item.kind = "nonseq" -> [error |-> "TypeError", maps |-> <<>>]
      [] OTHER -> [error |-> "", maps |-> SelectSeq(item.maps, validateMapData)]

\* Mutant: getAllMaps without its catch.
getAllMapsCall_Propagates(ls, env) == ReadMaps(ls, env)

\* getAllMaps with its catch: every error becomes the empty array.
getAllMapsCall(ls, env) ==
    LET r == ReadMaps(ls, env)
    IN  IF r.error # "" THEN [error |-> "", maps |-> <<>>] ELSE r

getAllMaps(ls, env) == getAllMapsCall(ls, env).maps

\* The number of markers of the maps.
RECURSIVE MarkerTotal(_)
MarkerTotal(maps) ==
    IF maps = <<>> THEN 0 ELSE Len(Head(maps).markers) + MarkerTotal(Tail(maps))

\* Mutant: the search starts at the second record.
FindIndex_SkipsFirst(maps, id) ==
    IF \E i \in 2..Len(maps) : maps[i].id = id
    THEN CHOOSE i \in 2..Len(maps) :
            /\ maps[i].id = id
            /\ \A j \in 2..(i - 1) : maps[j].id # id
    ELSE 0

\* Array.prototype.findIndex on the id, 1-based; 0 when there is none.
FindIndex(maps, id) ==
    IF \E i \in 1..Len(maps) : maps[i].id = id
    THEN CHOOSE i \in 1..Len(maps) :
            /\ maps[i].id = id
            /\ \A j \in 1..(i - 1) : maps[j].id # id
    ELSE 0

\* getMapById: <<the map>>, or <<>> for null.
getMapById(ls, env, mapId) ==
    LET allMaps == getAllMaps(ls, env)
        i == FindIndex(allMaps, mapId)
    IN  IF i = 0 THEN <<>> ELSE <<allMaps[i]>>

\* The place of maps[i] after a stable sort by `modified`, most recent first.
RankByModified(maps, i) ==
    1 + Cardinality({j \in 1..Len(maps) :
                        \/ maps[j].modified > maps[i].modified
                        \/ maps[j].modified = maps[i].modified /\ j < i})

\* getRecentMaps: sorted by `modified`, most recent first, cut to limit.
getRecentMaps(ls, env, limit) ==
    LET sorted == CHOOSE r \in
                    {[p \in 1..Len(m) |->
                        m[CHOOSE i \in 1..Len(m) : RankByModified(m, i) = p]] :
                        m \in {getAllMaps(ls, env)}} : TRUE
    IN  SubSeq(sorted, 1, IF limit < Len(sorted) THEN limit ELSE Len(sorted))

(***************************************************************************)
(* Retention cap.                                                          *)
(***************************************************************************)
\* The place of maps[i] after a stable ascending sort by `created`: behind
\* the records created earlier and the earlier records created at the same time.
RankByCreated(maps, i) ==
    1 + Cardinality({j \in 1..Len(maps) :
                        \/ maps[j].created < maps[i].created
                        \/ maps[j].created = maps[i].created /\ j < i})

\* maps.sort((a, b) => new Date(a.created) - new Date(b.created)): stable.
\* (m is the array, evaluated once.)
SortByCreated(maps) ==
    CHOOSE sorted \in
        {[p \in 1..Len(m) |-> m[CHOOSE i \in 1..Len(m) : RankByCreated(m, i) = p]] :
            m \in {maps}} : TRUE

\* Mutant: the excess removed from the front without sorting first.
enforceMapLimit_NoSort(maps) ==
    IF Len(maps) > MAX_MAPS
    THEN SubSeq(maps, Len(maps) - MAX_MAPS + 1, Len(maps))
    ELSE maps

\* Mutant: the cap applied one record too late.
enforceMapLimit_OffByOne(maps) ==
    IF Len(maps) > MAX_MAPS + 1
    THEN SubSeq(SortByCreated(maps), Len(maps) - MAX_MAPS, Len(maps))
    ELSE maps

enforceMapLimit(maps) ==
    IF Len(maps) > MAX_MAPS
    THEN SubSeq(SortByCreated(maps), Len(maps) - MAX_MAPS + 1, Len(maps))
    ELSE maps

(***************************************************************************)
(* Results of an operation.                                                *)
(***************************************************************************)
NoRec == MapRec(0, "", 0, <<>>)

\* What an operation hands back: the store as it leaves it, the error it
\* throws ("" when it returns normally), the value it returns, and what it
\* did on the way.
\*   rec     the record a save tried to store (stamped)
\*   path    "insert" or "update" for a save
\*   same    for an update: the version replaced differs from rec in
\*           `modified` and in nothing else
\*   evicted records the retention cap removed
\*   rems    remediation passes run (handleStorageQuotaExceeded calls)
\*   remediated  records the remediation removed from the store
\*   writes  setItem calls of a save (with rec in the payload) or of a
\*           delete, those that threw included
\*   result  the records a read returns
\*   failed  whether its write of the collection threw
Outcome(ls, nid) ==
    [ls |-> ls, nextId |-> nid, error |-> "", value |-> 0, rec |-> NoRec,
     path |-> "", same |-> FALSE, evicted |-> 0, rems |-> 0, remediated |-> 0,
     writes |-> 0, counts |-> <<>>, result |-> <<>>, failed |-> FALSE]

ErrQuota == "Espace de stockage insuffisant. Supprimez quelques cartes anciennes."
ErrSave == "Impossible de sauvegarder la carte"
ErrFormat == "Format de fichier invalide"
\* The error of the store itself, thrown again by `throw error`.
ErrStore == "store error"
ErrParse == "SyntaxError"

BoolVal(b) == IF b THEN 1 ELSE 0

(***************************************************************************)
(* Quota remediation.                                                      *)
(***************************************************************************)
\* The store after handleStorageQuotaExceeded; remOk says whether its own
\* setItem succeeds (its failure is caught and logged).
\* Mutant: the oldest quarter is taken from the array as stored, unsorted.
handleStorageQuotaExceeded_NoSort(ls, remOk) ==
    LET maps == getAllMaps(ls, "quota")
        toRemove == Len(maps) \div QUOTA_DIVISOR
    IN  IF Len(maps) > QUOTA_MIN_MAPS /\ remOk
        THEN [ls EXCEPT ![STORAGE_KEY] = Stringify(SubSeq(maps, toRemove + 1, Len(maps)))]
        ELSE ls

handleStorageQuotaExceeded(ls, remOk) ==
    LET maps == getAllMaps(ls, "quota")
        toRemove == Len(maps) \div QUOTA_DIVISOR
        kept == SubSeq(SortByCreated(maps), toRemove + 1, Len(maps))
    IN  IF Len(maps) > QUOTA_MIN_MAPS /\ remOk
        THEN [ls EXCEPT ![STORAGE_KEY] = Stringify(kept)]
        ELSE ls

(***************************************************************************)
(* Saving.                                                                 *)
(***************************************************************************)
\* mapData with its id generated when missing, and version and modified stamped.
StampMap(mapData, nid, clock) ==
    [mapData EXCEPT !.id = IF mapData.id = 0 THEN nid ELSE mapData.id,
                    !.version = VERSION,
                    !.modified = clock]

\* Mutant: an update pushes the record instead of replacing the old version.
SavePayload_PushOnUpdate(existingMaps, stamped) ==
    IF FindIndex(existingMaps, stamped.id) > 0
    THEN Append(existingMaps, stamped)
    ELSE enforceMapLimit(Append(existingMaps, stamped))

\* Mutant: an update removes the old version and pushes the new one.
SavePayload_MoveToEnd(existingMaps, stamped) ==
    IF FindIndex(existingMaps, stamped.id) > 0
    THEN Append(SelectSeq(existingMaps, LAMBDA m : m.id # stamped.id), stamped)
    ELSE enforceMapLimit(Append(existingMaps, stamped))

\* The array saveMap hands to setItem.
\* Mutant: an update cuts the array behind the record it replaces.
SavePayload_TruncatesOnUpdate(existingMaps, stamped) ==
    LET existingIndex == FindIndex(existingMaps, stamped.id)
    IN  IF existingIndex > 0
        THEN Append(SubSeq(existingMaps, 1, existingIndex - 1), stamped)
        ELSE enforceMapLimit(Append(existingMaps, stamped))

SavePayload(existingMaps, stamped) ==
    LET existingIndex == FindIndex(existingMaps, stamped.id)
    IN  IF existingIndex > 0
        THEN [existingMaps EXCEPT ![existingIndex] = stamped]
        ELSE enforceMapLimit(Append(existingMaps, stamped))

\* Mutant: after the remediation the write of the record is tried again.
saveMap_RetriesWrite(ls, nid, clock, mapData, env, remOk) ==
    LET stamped == StampMap(mapData, nid, clock)
        nid2 == IF mapData.id = 0 THEN nid + 1 ELSE nid
        handled == IF env = "quota" THEN handleStorageQuotaExceeded(ls, remOk) ELSE ls
        payload == SavePayload(getAllMaps(handled, env), stamped)
    IN  IF env = "unavailable"
        THEN [Outcome(ls, nid2) EXCEPT !.failed = TRUE, !.error = ErrSave, !.writes = 1]
        ELSE [Outcome([handled EXCEPT ![STORAGE_KEY] = Stringify(payload)], nid2)
                EXCEPT !.rems = IF env = "quota" THEN 1 ELSE 0,
                       !.writes = IF env = "quota" THEN 2 ELSE 1,
                       !.value = stamped.id]

saveMap(ls, nid, clock, mapData, env, remOk) ==
    LET stamped == StampMap(mapData, nid, clock)
        nid2 == IF mapData.id = 0 THEN nid + 1 ELSE nid
        existingMaps == getAllMaps(ls, env)
        existingIndex == FindIndex(existingMaps, stamped.id)
        path == IF existingIndex > 0 THEN "update" ELSE "insert"
        same == /\ existingIndex > 0
                /\ existingMaps[existingIndex] # stamped
                /\ [existingMaps[existingIndex] EXCEPT !.modified = 0]
                        = [stamped EXCEPT !.modified = 0]
        payload == SavePayload(existingMaps, stamped)
        base == [Outcome(ls, nid2) EXCEPT !.rec = stamped, !.path = path,
                                         !.same = same, !.writes = 1]
    IN  CASE env = "ok" ->
                [base EXCEPT !.ls = [ls EXCEPT ![STORAGE_KEY] = Stringify(payload)],
                             !.evicted = IF path = "insert"
                                         THEN Len(existingMaps) + 1 - Len(payload) ELSE 0,
                             !.value = stamped.id]
          [] env = "quota" ->
                [base EXCEPT !.ls = handleStorageQuotaExceeded(ls, remOk),
                             !.rems = 1,
                             !.remediated =
                                Len(getAllMaps(ls, env))
                                - Len(getAllMaps(handleStorageQuotaExceeded(ls, remOk), env)),
                             !.failed = TRUE,
                             !.error = ErrQuota]
          [] OTHER ->
                [base EXCEPT !.failed = TRUE, !.error = ErrSave]

(***************************************************************************)
(* Deleting.                                                               *)
(***************************************************************************)
RemoveId(maps, mapId) == SelectSeq(maps, LAMBDA m : m.id # mapId)

\* Mutant: the array is written back also when no record was removed.
deleteMap_AlwaysWrites(ls, nid, mapId, env) ==
    LET allMaps == getAllMaps(ls, env)
        filteredMaps == RemoveId(allMaps, mapId)
    IN  IF env = "ok"
        THEN [Outcome([ls EXCEPT ![STORAGE_KEY] = Stringify(filteredMaps)], nid)
                 EXCEPT !.value = BoolVal(Len(filteredMaps) # Len(allMaps)),
                        !.writes = 1]
        ELSE [Outcome(ls, nid) EXCEPT !.failed = TRUE, !.writes = 1]

\* Mutant: only the first record of the id is removed, and the rest of the
\* array is written back as stored.
deleteMap_RemovesFirstOnly(ls, nid, mapId, env) ==
    LET allMaps == getAllMaps(ls, env)
        at == FindIndex(allMaps, mapId)
    IN  IF at = 0
        THEN Outcome(ls, nid)
        ELSE IF env = "ok"
             THEN [Outcome([ls EXCEPT ![STORAGE_KEY] =
                                Stringify(SubSeq(allMaps, 1, at - 1)
                                          \o SubSeq(allMaps, at + 1, Len(allMaps)))], nid)
                      EXCEPT !.value = 1, !.writes = 1]
             ELSE [Outcome(ls, nid) EXCEPT !.failed = TRUE, !.writes = 1]

deleteMap(ls, nid, mapId, env) ==
    LET allMaps == getAllMaps(ls, env)
        filteredMaps == RemoveId(allMaps, mapId)
    IN  IF Len(filteredMaps) = Len(allMaps)
        THEN Outcome(ls, nid)
        ELSE IF env = "ok"
             THEN [Outcome([ls EXCEPT ![STORAGE_KEY] = Stringify(filteredMaps)], nid)
                      EXCEPT !.value = 1, !.writes = 1]
             ELSE [Outcome(ls, nid) EXCEPT !.failed = TRUE, !.writes = 1]

\* removeItem never meets the quota; it throws only when the store is closed.
deleteAllMaps(ls, nid, env) ==
    IF env = "unavailable"
    THEN [Outcome(ls, nid) EXCEPT !.failed = TRUE]
    ELSE [Outcome([ls EXCEPT ![STORAGE_KEY] = AbsentItem], nid) EXCEPT !.value = 1]

(***************************************************************************)
(* Settings.                                                               *)
(***************************************************************************)
\* A settings object is a function from some of the keys to values.
getDefaultSettings ==
    [k \in {"theme", "defaultMapCenter", "defaultZoom", "defaultLayer",
            "autoSave", "showTooltips", "language"} |->
        CASE k = "theme" -> "light"
          [] k = "defaultMapCenter" -> "46.603354,1.888334"
          [] k = "defaultZoom" -> "6"
          [] k = "defaultLayer" -> "standard"
          [] k = "autoSave" -> "true"
          [] k = "showTooltips" -> "true"
          [] k = "language" -> "fr"]

\* Mutant: { ...b, ...a }.
Spread_FirstWins(a, b) ==
    [k \in DOMAIN a \cup DOMAIN b |-> IF k \in DOMAIN a THEN a[k] ELSE b[k]]

\* { ...a, ...b }
Spread(a, b) ==
    [k \in DOMAIN a \cup DOMAIN b |-> IF k \in DOMAIN b THEN b[k] ELSE a[k]]

AbsentSettings == [kind |-> "absent", obj |-> <<>>]
ObjItem(obj) == [kind |-> "obj", obj |-> obj]

\* Mutant: only what the store holds is returned.
getSettings_StoredOnly(ls, env) ==
    IF env = "unavailable" THEN getDefaultSettings
    ELSE LET item == ls[SETTINGS_KEY] IN
         IF item.kind = "obj" THEN item.obj ELSE getDefaultSettings

getSettings(ls, env) ==
    IF env = "unavailable" THEN getDefaultSettings
    ELSE LET item == ls[SETTINGS_KEY] IN
         CASE item.kind = "absent" -> getDefaultSettings
           [] item.kind = "obj" -> Spread(getDefaultSettings, item.obj)
           [] OTHER -> getDefaultSettings

\* The store after saveSettings; a failing write is caught and logged.
saveSettings(ls, settings, env) ==
    LET updatedSettings == Spread(getSettings(ls, env), settings)
    IN  IF env = "ok"
        THEN [ls EXCEPT ![SETTINGS_KEY] = ObjItem(updatedSettings)]
        ELSE ls

\* One call of getSettings: it throws nothing and returns the settings.
getSettingsCall(ls, nid, env) ==
    [Outcome(ls, nid) EXCEPT !.result = getSettings(ls, env)]

\* Mutant: the catch of saveSettings rethrows.
saveSettingsCall_Rethrows(ls, nid, settings, env) ==
    IF env = "ok"
    THEN Outcome(saveSettings(ls, settings, env), nid)
    ELSE [Outcome(ls, nid) EXCEPT !.failed = TRUE, !.error = ErrStore]

\* One call of saveSettings: it throws nothing, whether setItem accepted the
\* settings or not.
saveSettingsCall(ls, nid, settings, env) ==
    [Outcome(saveSettings(ls, settings, env), nid) EXCEPT !.failed = (env # "ok")]

(***************************************************************************)
(* Maintenance.                                                            *)
(***************************************************************************)
\* One map as cleanupStorage keeps it: invalid markers dropped.
CleanMap(map) ==
    [map EXCEPT !.markers = SelectSeq(map.markers, validateMarkerData)]

\* Mutant: the catch of cleanupStorage logs the failure and returns.
cleanupStorage_Absorbs(ls, nid, env) ==
    IF env = "ok"
    THEN [Outcome([ls EXCEPT ![STORAGE_KEY] =
                        Stringify(SelectSeq(getAllMaps(ls, env), validateMapData))], nid)
            EXCEPT !.counts = <<0, 0, 0, 0>>]
    ELSE [Outcome(ls, nid) EXCEPT !.failed = TRUE]

cleanupStorage(ls, nid, env) ==
    LET allMaps == getAllMaps(ls, env)
        keptIdx == {i \in 1..Len(allMaps) : validateMapData(allMaps[i])}
        kept == SelectSeq(allMaps, validateMapData)
        validMaps == [i \in 1..Len(kept) |-> CleanMap(kept[i])]
        fixedCount == Cardinality({i \in 1..Len(kept) : CleanMap(kept[i]) # kept[i]})
        removedCount == Len(allMaps) - Cardinality(keptIdx)
    IN  IF env = "ok"
        THEN [Outcome([ls EXCEPT ![STORAGE_KEY] = Stringify(validMaps)], nid)
                EXCEPT !.counts = <<Len(allMaps), Len(validMaps), removedCount, fixedCount>>]
        ELSE [Outcome(ls, nid) EXCEPT !.failed = TRUE, !.error = ErrStore]

\* applyMigrations followed by map.version = toVersion.
applyMigrations(mapData, clock, toVersion) ==
    LET created == IF mapData.created = 0 THEN clock ELSE mapData.created
    IN  [mapData EXCEPT
            !.created = created,
            !.modified = IF mapData.modified = 0 THEN created ELSE mapData.modified,
            !.center = IF mapData.center = 0 THEN 1 ELSE mapData.center,
            !.zoom = IF mapData.zoom = 0 THEN 6 ELSE mapData.zoom,
            !.markers = [i \in 1..Len(mapData.markers) |->
                            IF mapData.markers[i].created = 0
                            THEN [mapData.markers[i] EXCEPT !.created = created]
                            ELSE mapData.markers[i]],
            !.version = toVersion]

\* Mutant: the collection is written back whether a map was migrated or not.
migrateMaps_AlwaysWrites(ls, nid, clock, toVersion, env) ==
    LET maps == getAllMaps(ls, env)
        stale(m) == m.version = 0 \/ m.version # toVersion
        migrated == [i \in 1..Len(maps) |->
                        IF stale(maps[i]) THEN applyMigrations(maps[i], clock, toVersion)
                        ELSE maps[i]]
        migratedCount == Cardinality({i \in 1..Len(maps) : stale(maps[i])})
    IN  IF env = "ok"
        THEN [Outcome([ls EXCEPT ![STORAGE_KEY] = Stringify(migrated)], nid)
                EXCEPT !.counts = <<migratedCount, Len(maps)>>, !.writes = 1]
        ELSE [Outcome(ls, nid) EXCEPT !.failed = TRUE, !.error = ErrStore, !.writes = 1]

migrateMaps(ls, nid, clock, toVersion, env) ==
    LET maps == getAllMaps(ls, env)
        stale(m) == m.version = 0 \/ m.version # toVersion
        migrated == [i \in 1..Len(maps) |->
                        IF stale(maps[i]) THEN applyMigrations(maps[i], clock, toVersion)
                        ELSE maps[i]]
        migratedCount == Cardinality({i \in 1..Len(maps) : stale(maps[i])})
    IN  IF migratedCount = 0
        THEN [Outcome(ls, nid) EXCEPT !.counts = <<0, Len(maps)>>]
        ELSE IF env = "ok"
             THEN [Outcome([ls EXCEPT ![STORAGE_KEY] = Stringify(migrated)], nid)
                     EXCEPT !.counts = <<migratedCount, Len(maps)>>, !.writes = 1]
             ELSE [Outcome(ls, nid) EXCEPT !.failed = TRUE, !.error = ErrStore,
                                           !.writes = 1]

(***************************************************************************)
(* Import.                                                                 *)
(***************************************************************************)
\* An envelope: text JSON.parse rejects (kind "unparseable"), an object
\* without a `maps` array (kind "nomaps"), or an object with one (kind
\* "envelope"); settings is <<>> when the envelope carries none, else
\* <<the settings object>>.
Envelope(kind, maps, settings) == [kind |-> kind, maps |-> maps, settings |-> settings]

\* Mutant: { id: newId, ...map }: the id of the envelope wins.
ImportRecords_KeepsId(incoming, acc, nid, clock) ==
    LET valid == SelectSeq(incoming, validateMapData)
    IN  acc \o [i \in 1..Len(valid) |->
                   [valid[i] EXCEPT !.imported = clock, !.modified = clock]]

\* Mutant: every incoming record is appended, valid or not.
ImportRecords_KeepsInvalid(incoming, acc, nid, clock) ==
    acc \o [i \in 1..Len(incoming) |->
               [incoming[i] EXCEPT !.id = nid + i - 1, !.imported = clock,
                                   !.modified = clock]]

RECURSIVE ImportRecords(_, _, _, _)
\* The forEach of importMaps over the incoming records: the valid ones
\* appended to acc with the ids nid, nid + 1, ...
ImportRecords(incoming, acc, nid, clock) ==
    IF incoming = <<>> THEN acc
    ELSE LET map == Head(incoming) IN
         IF validateMapData(map)
         THEN ImportRecords(Tail(incoming),
                            Append(acc, [map EXCEPT !.id = nid,
                                                    !.imported = clock,
                                                    !.modified = clock]),
                            nid + 1, clock)
         ELSE ImportRecords(Tail(incoming), acc, nid, clock)

CountValid(maps) == Len(SelectSeq(maps, validateMapData))

\* JSON.stringify writes NaN as null; every other value of a stored record
\* is written as it is and read back by JSON.parse as it was.
NullValue == [type |-> "null", value |-> 0]
JsonValue(x) == IF x.type = "NaN" THEN NullValue ELSE x
JsonMarker(m) == [m EXCEPT !.lat = JsonValue(m.lat), !.lon = JsonValue(m.lon)]
JsonMap(map) ==
    [map EXCEPT !.markers = [i \in 1..Len(map.markers) |-> JsonMarker(map.markers[i])]]

\* Mutant: the export leaves the markers out.
exportAllMaps_DropsMarkers(ls, env) ==
    LET maps == getAllMaps(ls, env)
    IN  Envelope("envelope", [i \in 1..Len(maps) |-> [maps[i] EXCEPT !.markers = <<>>]],
                 <<getSettings(ls, env)>>)

\* exportAllMaps, read back by the JSON.parse of importMaps.
exportAllMaps(ls, env) ==
    LET maps == getAllMaps(ls, env)
    IN  Envelope("envelope", [i \in 1..Len(maps) |-> JsonMap(maps[i])],
                 <<getSettings(ls, env)>>)

\* Mutant: the settings of the envelope are merged with replace too.
importMapsBody_MergesOnReplace(ls, nid, clock, importData, replace, env, settingsEnv) ==
    LET importedCount == CountValid(importData.maps)
        skippedCount == Len(importData.maps) - importedCount
        appended == ImportRecords(importData.maps,
                                  IF replace THEN <<>> ELSE getAllMaps(ls, env),
                                  nid, clock)
        existingMaps == enforceMapLimit(appended)
        ls1 == [ls EXCEPT ![STORAGE_KEY] = Stringify(existingMaps)]
        ls2 == IF importData.settings # <<>>
               THEN saveSettings(ls1, Spread(getSettings(ls1, env), importData.settings[1]),
                                 settingsEnv)
               ELSE ls1
    IN  IF env = "ok"
        THEN [Outcome(ls2, nid + importedCount)
                EXCEPT !.counts = <<importedCount, skippedCount, Len(existingMaps)>>,
                       !.evicted = Len(appended) - Len(existingMaps)]
        ELSE [Outcome(ls, nid + importedCount) EXCEPT !.failed = TRUE, !.error = ErrStore]

\* importMaps once the envelope is parsed and has a `maps` array.
\* env rules the collection's accesses, settingsEnv the write of saveSettings.
importMapsBody(ls, nid, clock, importData, replace, env, settingsEnv) ==
    LET importedCount == CountValid(importData.maps)
        skippedCount == Len(importData.maps) - importedCount
        appended == ImportRecords(importData.maps,
                                  IF replace THEN <<>> ELSE getAllMaps(ls, env),
                                  nid, clock)
        existingMaps == enforceMapLimit(appended)
        ls1 == [ls EXCEPT ![STORAGE_KEY] = Stringify(existingMaps)]
        ls2 == IF importData.settings # <<>> /\ ~replace
               THEN saveSettings(ls1, Spread(getSettings(ls1, env), importData.settings[1]),
                                 settingsEnv)
               ELSE ls1
    IN  IF env = "ok"
        THEN [Outcome(ls2, nid + importedCount)
                EXCEPT !.counts = <<importedCount, skippedCount, Len(existingMaps)>>,
                       !.evicted = Len(appended) - Len(existingMaps)]
        ELSE [Outcome(ls, nid + importedCount) EXCEPT !.failed = TRUE, !.error = ErrStore]

\* Mutant: with replace the collection is emptied before the envelope is parsed.
importMaps_ClearsFirst(ls, nid, clock, jsonData, replace, env, settingsEnv) ==
    LET cleared == IF replace /\ env = "ok"
                   THEN [ls EXCEPT ![STORAGE_KEY] = Stringify(<<>>)] ELSE ls
    IN  IF jsonData.kind = "unparseable" THEN [Outcome(cleared, nid) EXCEPT !.error = ErrParse]
        ELSE IF jsonData.kind = "nomaps" THEN [Outcome(cleared, nid) EXCEPT !.error = ErrFormat]
        ELSE importMapsBody(ls, nid, clock, jsonData, replace, env, settingsEnv)

importMaps(ls, nid, clock, jsonData, replace, env, settingsEnv) ==
    IF jsonData.kind = "unparseable" THEN [Outcome(ls, nid) EXCEPT !.error = ErrParse]
    ELSE IF jsonData.kind = "nomaps" THEN [Outcome(ls, nid) EXCEPT !.error = ErrFormat]
    ELSE importMapsBody(ls, nid, clock, jsonData, replace, env, settingsEnv)

(***************************************************************************)
(* The state machine.                                                      *)
(***************************************************************************)
\* The collection as stored (invalid records included).
Stored == localStorage[STORAGE_KEY].maps

\* ret after an operation with outcome o.
Ret(op, o) ==
    [op |-> op, error |-> o.error, value |-> o.value, path |-> o.path,
     same |-> o.same, evicted |-> o.evicted, rems |-> o.rems, remediated |-> o.remediated,
     writes |-> o.writes, counts |-> o.counts, result |-> o.result,
     failed |-> o.failed]

NoEditor ==
    [currentMapData |-> NoRec, toasts |-> {}, handler |-> "", saveError |-> "", url |-> 0]

EmptyStorage ==
    [k \in {STORAGE_KEY, SETTINGS_KEY} |->
        IF k = STORAGE_KEY THEN AbsentItem ELSE AbsentSettings]

Init ==
    /\ localStorage = EmptyStorage
    /\ nextId = 1
    /\ now = 1
    /\ ret = Ret("init", Outcome(EmptyStorage, 1))
    /\ inserted = <<>>
    /\ editor = NoEditor

\* The store and ret after an operation of the repository (out is the
\* outcome, evaluated once).
Apply(op, o) ==
    \E out \in {o} :
        /\ localStorage' = out.ls
        /\ nextId' = out.nextId
        /\ ret' = Ret(op, out)

\* One call of saveMap.
SaveCall(mapData, env, remOk) ==
    Apply("save", saveMap(localStorage, nextId, now, mapData, env, remOk))

SaveStep(mapData, env, remOk) ==
    /\ SaveCall(mapData, env, remOk)
    /\ UNCHANGED <<now, inserted, editor>>

\* The records callers hand to save: without an id (while generateMapId has
\* ids left), or with an id the repository has handed out.
SaveInputs(titles, createds) ==
    {MapRec(id, t, c, <<>>) : id \in (IF nextId <= MaxIds THEN {0} ELSE {}) \cup 1..(nextId - 1),
                              t \in titles, c \in createds}

\* The oldest and the most recent `created`.
CreatedEnds == {1, MaxCreated}

RemOks(env) == IF env = "quota" THEN BOOLEAN ELSE {TRUE}

\* save of a valid map.
SaveMap ==
    \E mapData \in SaveInputs({"A"}, CreatedEnds), env \in Envs : \E remOk \in RemOks(env) :
        SaveStep(mapData, env, remOk)

DeleteStep(mapId, env) ==
    /\ Apply("delete", deleteMap(localStorage, nextId, mapId, env))
    /\ UNCHANGED <<now, inserted, editor>>

DeleteMap == \E mapId \in 1..MaxIds, env \in Envs : DeleteStep(mapId, env)

DeleteAllMaps ==
    \E env \in Envs :
        /\ Apply("deleteAll", deleteAllMaps(localStorage, nextId, env))
        /\ UNCHANGED <<now, inserted, editor>>

CleanupStorage ==
    \E env \in Envs :
        /\ Apply("cleanup", cleanupStorage(localStorage, nextId, env))
        /\ UNCHANGED <<now, inserted, editor>>

MigrateMaps ==
    \E env \in Envs :
        /\ Apply("migrate", migrateMaps(localStorage, nextId, now, VERSION, env))
        /\ UNCHANGED <<now, inserted, editor>>

\* Envelopes handed to importMaps: up to MaxImport records, each an old
\* valid map, a recent valid map or a map without title.
MaxImport == 1
ImportRecs == {MapRec(1, "A", 1, <<>>), MapRec(1, "A", MaxCreated, <<>>),
               MapRec(1, "", 1, <<>>)}
ImportSeqs == UNION {[1..n -> ImportRecs] : n \in 0..MaxImport}
Envelopes ==
    {Envelope("unparseable", <<>>, <<>>), Envelope("nomaps", <<>>, <<>>)}
    \cup {Envelope("envelope", ms, <<>>) : ms \in ImportSeqs}

ImportStep(jsonData, replace, env, settingsEnv) ==
    /\ nextId + CountValid(jsonData.maps) <= MaxIds + 1
    /\ Apply("import",
             importMaps(localStorage, nextId, now, jsonData, replace, env, settingsEnv))
    /\ UNCHANGED <<now, inserted, editor>>

ImportMaps ==
    \E jsonData \in Envelopes, replace \in BOOLEAN, env \in Envs :
        \E settingsEnv \in IF jsonData.settings = <<>> THEN {"ok"} ELSE {"ok", "quota"} :
            ImportStep(jsonData, replace, env, settingsEnv)

Next ==
    \/ SaveMap
    \/ DeleteMap
    \/ DeleteAllMaps
    \/ CleanupStorage
    \/ MigrateMaps
    \/ ImportMaps

Spec == Init /\ [][Next]_vars

(***************************************************************************)
(* Saving in detail: valid and invalid records, records whose `created`    *)
(* the caller changed, with the clock running and the store answering.     *)
(***************************************************************************)
Tick ==
    /\ now < MaxNow
    /\ now' = now + 1
    /\ UNCHANGED <<localStorage, nextId, ret, inserted, editor>>

\* Valid records of either `created`, and records without title.
SaveAnyInputs == SaveInputs({"A"}, CreatedEnds) \cup SaveInputs({""}, {1})

SaveAny == \E mapData \in SaveAnyInputs : SaveStep(mapData, "ok", TRUE)

NextSave ==
    \/ SaveAny
    \/ Tick

SpecSave == Init /\ [][NextSave]_vars

(***************************************************************************)
(* The cap scenario: new valid maps saved one after the other into an      *)
(* empty collection, in every order of their `created`.                    *)
(***************************************************************************)
\* Maps inserted beyond the cap.
MaxExtra == 2

\* The n-th insert gets the id n; inserted[n] is its `created`.
InsertNew ==
    \E c \in 1..(MAX_MAPS + MaxExtra) :
        /\ Len(inserted) < MAX_MAPS + MaxExtra
        /\ SaveCall(MapRec(0, "A", c, <<>>), "ok", TRUE)
        /\ inserted' = Append(inserted, c)
        /\ UNCHANGED <<now, editor>>

NextCap == InsertNew

SpecCap == Init /\ [][NextCap]_vars

(***************************************************************************)
(* Properties.                                                             *)
(***************************************************************************)
\* C1: whatever save, delete, deleteAll, importMaps, cleanup and migrate
\* operations have run, succeeding or failing, the stored collection holds
\* at most MAX_MAPS records.
C1_CapNeverExceeded == Len(Stored) <= MAX_MAPS

\* A full collection on which an insert or an import has just evicted.
C1_Witness ==
    /\ ret.op \in {"save", "import"}
    /\ ret.evicted > 0
    /\ Len(Stored) = MAX_MAPS

\* C2: after MAX_MAPS + k new valid maps (k >= 1) have been saved into an
\* empty collection, in any order of their `created`, exactly MAX_MAPS
\* records are stored, each as it was inserted, and every evicted map is
\* at most as recent as every retained one.
StoredIds == {Stored[i].id : i \in 1..Len(Stored)}

C2_CapKeepsMostRecent ==
    Len(inserted) > MAX_MAPS =>
        /\ Len(Stored) = MAX_MAPS
        /\ Cardinality(StoredIds) = MAX_MAPS
        /\ StoredIds \subseteq 1..Len(inserted)
        /\ \A i \in 1..Len(Stored) : Stored[i].created = inserted[Stored[i].id]
        /\ \A e \in (1..Len(inserted)) \ StoredIds, r \in StoredIds :
                inserted[e] <= inserted[r]

\* MAX_MAPS + MaxExtra maps of pairwise different `created` inserted, the
\* oldest of them last.
C2_Witness ==
    /\ Len(inserted) = MAX_MAPS + MaxExtra
    /\ \A i, j \in 1..Len(inserted) : i # j => inserted[i] # inserted[j]
    /\ inserted[Len(inserted)] = 1
    /\ ret.evicted = 1

(***************************************************************************)
(* Saving into a full store: collections of up to MaxQuotaMaps records, as *)
(* an installation holds them, and saves whose write meets the quota.      *)
(* The ids 1..MaxQuotaMaps have been handed out; the records of the ids    *)
(* beyond the n stored ones are gone.                                      *)
(***************************************************************************)
MaxQuotaMaps == 20
MaxQuotaSaves == 2

\* The `created` of the i-th of n stored records: ascending, descending,
\* scattered (all different) or with ties.
QuotaCreated(pattern, n, i) ==
    CASE pattern = "asc" -> i
      [] pattern = "desc" -> n + 1 - i
      [] pattern = "mixed" -> ((i * 7) % (MaxQuotaMaps + 3)) + 1
      [] OTHER -> (i % 3) + 1

QuotaCollection(pattern, n) ==
    [i \in 1..n |-> MapRec(i, "A", QuotaCreated(pattern, n, i), <<>>)]

InitQuota ==
    \E n \in 0..MaxQuotaMaps, pattern \in {"asc", "desc", "mixed", "ties"} :
        /\ localStorage = [EmptyStorage EXCEPT
                              ![STORAGE_KEY] = Stringify(QuotaCollection(pattern, n))]
        /\ nextId = MaxQuotaMaps + 1
        /\ now = MaxQuotaMaps + 4
        /\ ret = Ret("init", Outcome(EmptyStorage, 1))
        /\ inserted = <<>>
        /\ editor = NoEditor

\* A new record, or the first or the last stored record saved again.
QuotaInputs ==
    {MapRec(id, "B", c, <<>>) :
        id \in {0} \cup {Stored[i].id : i \in {1, Len(Stored)} \cap 1..Len(Stored)},
        c \in {1, MaxQuotaMaps}}

QuotaSaveStep(mapData, remOk) ==
    /\ nextId <= MaxQuotaMaps + MaxQuotaSaves
    /\ SaveStep(mapData, "quota", remOk)

QuotaSave == \E mapData \in QuotaInputs, remOk \in BOOLEAN : QuotaSaveStep(mapData, remOk)

NextQuota == QuotaSave

SpecQuota == InitQuota /\ [][NextQuota]_vars

(***************************************************************************)
(* The editor page: its working copy of the map, and the notifications its *)
(* handlers show.  editor.handler is the handler that ran last,            *)
(* editor.toasts what it showed, editor.saveError the error                *)
(* MapStorage.saveMap threw in it ("" when it threw none), editor.url the  *)
(* id in the query of the page's URL (0 when it has none).                 *)
(***************************************************************************)
DEFAULT_TITLE == "Nouvelle carte"

showToast(message, type) == [message |-> message, type |-> type]

\* currentMapData as initializeNewMap sets it.
initializeNewMap(clock) == MapRec(0, DEFAULT_TITLE, clock, <<>>)

\* loadExistingMap: the working copy and the toasts.
loadExistingMap(ls, env, clock, mapId) ==
    LET found == getMapById(ls, env, mapId)
    IN  IF found # <<>>
        THEN [currentMapData |-> found[1],
              toasts |-> {showToast("Carte chargée avec succès", "success")}]
        ELSE [currentMapData |-> initializeNewMap(clock),
              toasts |-> {showToast("Impossible de charger la carte", "error")}]

\* autoSave: the outcome of MapStorage.saveMap, the working copy afterwards
\* (saveMap stamps the object it is handed), the error saveMap threw and
\* the error autoSave lets through to its caller: none, it is only logged.
\* replaceState holds the id of history.replaceState(..., '?id=' + savedId),
\* called when saveMap has returned and currentMapData.id, read after the
\* call, is still missing.
autoSave(currentMapData, ls, nid, clock, env, remOk) ==
    LET o == saveMap(ls, nid, clock, [currentMapData EXCEPT !.modified = clock],
                     env, remOk)
    IN  [o |-> o, currentMapData |-> o.rec, saveError |-> o.error, thrown |-> "",
         replaceState |-> IF o.error = "" /\ o.rec.id = 0 THEN <<o.value>> ELSE <<>>]

\* saveCurrentMap: autoSave, then the toast of the try or of the catch.
saveCurrentMap(currentMapData, ls, nid, clock, env, remOk) ==
    LET a == autoSave(currentMapData, ls, nid, clock, env, remOk)
    IN  [a |-> a,
         toasts |-> IF a.thrown = ""
                    THEN {showToast("Carte sauvegardée avec succès", "success")}
                    ELSE {showToast("Erreur lors de la sauvegarde", "error")}]

PageLoaded == editor.currentMapData # NoRec

\* A save from the page is possible while generateMapId has ids left.
CanSave == PageLoaded /\ (editor.currentMapData.id = 0 => nextId <= MaxIds)

\* The page opened without ?id=.
OpenNew ==
    /\ editor' = [currentMapData |-> initializeNewMap(now),
                  toasts |-> {showToast("Éditeur chargé avec succès", "success")},
                  handler |-> "DOMContentLoaded", saveError |-> "", url |-> 0]
    /\ UNCHANGED <<localStorage, nextId, now, ret, inserted>>

\* The page opened with ?id=mapId.
OpenExisting ==
    \E mapId \in 1..MaxIds, env \in {"ok", "unavailable"} :
        LET l == loadExistingMap(localStorage, env, now, mapId)
        IN  /\ editor' = [currentMapData |-> l.currentMapData,
                          toasts |-> l.toasts \cup
                                {showToast("Éditeur chargé avec succès", "success")},
                          handler |-> "DOMContentLoaded", saveError |-> "",
                          url |-> mapId]
            /\ UNCHANGED <<localStorage, nextId, now, ret, inserted>>

\* The store, ret and the working copy after a handler has run autoSave.
AfterAutoSave(a, handler, toasts) ==
    /\ Apply("save", a.o)
    /\ editor' = [currentMapData |-> a.currentMapData, toasts |-> toasts,
                  handler |-> handler, saveError |-> a.saveError,
                  url |-> IF a.replaceState # <<>> THEN a.replaceState[1] ELSE editor.url]
    /\ UNCHANGED <<now, inserted>>

\* autoSave called by a handler that shows nothing itself (beforeunload).
AutoSave ==
    \E env \in Envs : \E remOk \in RemOks(env) :
        /\ CanSave
        /\ AfterAutoSave(autoSave(editor.currentMapData, localStorage, nextId, now,
                                  env, remOk),
                         "autoSave", {})

\* The Save button, or Ctrl+S.
SaveCurrentMap ==
    \E env \in Envs : \E remOk \in RemOks(env) :
        /\ CanSave
        /\ LET s == saveCurrentMap(editor.currentMapData, localStorage, nextId, now,
                                   env, remOk)
           IN  AfterAutoSave(s.a, "saveCurrentMap", s.toasts)

\* The rename form submitted with newTitle (trimmed).
RenameSubmit ==
    \E newTitle \in {"", "A", DEFAULT_TITLE}, env \in Envs : \E remOk \in RemOks(env) :
        /\ CanSave
        /\ IF newTitle # "" /\ newTitle # editor.currentMapData.title
           THEN AfterAutoSave(
                    autoSave([editor.currentMapData EXCEPT !.title = newTitle,
                                                           !.modified = now],
                             localStorage, nextId, now, env, remOk),
                    "renameSubmit",
                    {showToast("Titre mis à jour", "success")})
           ELSE /\ editor' = [editor EXCEPT !.toasts = {}, !.handler = "renameSubmit",
                                            !.saveError = ""]
                /\ UNCHANGED <<localStorage, nextId, now, ret, inserted>>

NextEditor ==
    \/ OpenNew
    \/ OpenExisting
    \/ AutoSave
    \/ SaveCurrentMap
    \/ RenameSubmit
    \/ Tick

SpecEditor == Init /\ [][NextEditor]_vars

(***************************************************************************)
(* Reading a store in any condition: absent, holding text that is not      *)
(* JSON, JSON that is not an array, or an array of valid and invalid       *)
(* records; during a read the store answers or throws.                     *)
(***************************************************************************)
MaxReadMaps == 3

\* Three valid records, the second modified later, and records without
\* title, without id, with an id that is not a string, without `created` and
\* without `modified`.
ReadRecs ==
    {MapRec(1, "A", 1, <<>>), [MapRec(2, "A", 1, <<>>) EXCEPT !.modified = 2],
     MapRec(3, "B", 1, <<>>), MapRec(3, "", 1, <<>>), MapRec(0, "A", 1, <<>>), MapRec(-1, "A", 1, <<>>),
     [MapRec(1, "A", 0, <<>>) EXCEPT !.modified = 1],
     [MapRec(2, "A", 1, <<>>) EXCEPT !.modified = 0]}

ReadItems ==
    {AbsentItem, UnparseableItem, NonSeqItem}
    \cup {SeqItem(maps) : maps \in UNION {[1..n -> ReadRecs] : n \in 0..MaxReadMaps}}

ReadEnvs == {"ok", "unavailable"}

InitRead ==
    \E item \in ReadItems :
        /\ localStorage = [EmptyStorage EXCEPT ![STORAGE_KEY] = item]
        /\ nextId = MaxReadMaps + 1
        /\ now = 1
        /\ ret = Ret("init", Outcome(EmptyStorage, 1))
        /\ inserted = <<>>
        /\ editor = NoEditor

\* ret after a read: the error that reached the caller and the records returned.
ReadReturns(op, env, result) ==
    /\ ret' = Ret(op, [Outcome(localStorage, nextId)
                          EXCEPT !.error = getAllMapsCall(localStorage, env).error,
                                 !.result = IF getAllMapsCall(localStorage, env).error = ""
                                            THEN result ELSE <<>>])
    /\ UNCHANGED <<localStorage, nextId, now, inserted, editor>>

GetAllStep(env) == ReadReturns("getAll", env, getAllMaps(localStorage, env))

GetAllMaps == \E env \in ReadEnvs : GetAllStep(env)

GetByIdStep(mapId, env) ==
    ReadReturns("getById", env, getMapById(localStorage, env, mapId))

GetMapById == \E mapId \in 1..MaxReadMaps, env \in ReadEnvs : GetByIdStep(mapId, env)

GetRecentStep(limit, env) ==
    ReadReturns("getRecent", env, getRecentMaps(localStorage, env, limit))

GetRecentMaps == \E limit \in 1..MaxReadMaps, env \in ReadEnvs : GetRecentStep(limit, env)

NextRead ==
    \/ GetAllMaps
    \/ GetMapById
    \/ GetRecentMaps

SpecRead == InitRead /\ [][NextRead]_vars

(***************************************************************************)
(* Markers: a stored map with one marker of any shape, validated and       *)
(* cleaned up.                                                             *)
(***************************************************************************)
Latitudes == {Num(v) : v \in {-91, -90, 10, 90, 100}} \cup {NaNValue, StringValue(10)}
Longitudes == {Num(v) : v \in {-181, -180, 10, 180, 181}} \cup {NaNValue, StringValue(10)}

Markers ==
    {[Marker(id, titre, lat, lon, 1) EXCEPT !.couleur = couleur, !.icone = icone] :
        id \in {0, 1}, titre \in {"", "T"}, lat \in Latitudes, lon \in Longitudes,
        couleur \in {"", "red"}, icone \in {"", "pin"}}

InitMarker ==
    \E marker \in Markers :
        /\ localStorage = [EmptyStorage EXCEPT
                              ![STORAGE_KEY] = Stringify(<<MapRec(1, "A", 1, <<marker>>)>>)]
        /\ nextId = 2
        /\ now = 1
        /\ ret = Ret("init", Outcome(EmptyStorage, 1))
        /\ inserted = <<>>
        /\ editor = NoEditor

\* The marker of the stored map.
StoredMarker == Stored[1].markers[1]

HasMarker == Len(Stored) = 1 /\ Len(Stored[1].markers) = 1

\* validateMarkerData called on the marker of the stored map.
ValidateMarker ==
    /\ HasMarker
    /\ ret' = Ret("validateMarker",
                  [Outcome(localStorage, nextId)
                      EXCEPT !.value = BoolVal(validateMarkerData(StoredMarker))])
    /\ UNCHANGED <<localStorage, nextId, now, inserted, editor>>

NextMarker ==
    \/ ValidateMarker
    \/ CleanupStorage

SpecMarker == InitMarker /\ [][NextMarker]_vars

(***************************************************************************)
(* Deleting from a store in any condition, with or without stored          *)
(* settings.                                                               *)
(***************************************************************************)
SettingsItems == {AbsentSettings, ObjItem([k \in {"theme"} |-> "dark"])}

InitDelete ==
    \E item \in ReadItems, settings \in SettingsItems :
        /\ localStorage = [k \in {STORAGE_KEY, SETTINGS_KEY} |->
                              IF k = STORAGE_KEY THEN item ELSE settings]
        /\ nextId = MaxIds + 1
        /\ now = 1
        /\ ret = Ret("init", Outcome(EmptyStorage, 1))
        /\ inserted = <<>>
        /\ editor = NoEditor

NextDelete ==
    \/ DeleteMap
    \/ DeleteAllMaps

SpecDelete == InitDelete /\ [][NextDelete]_vars

(***************************************************************************)
(* Importing into a store that holds maps and settings.  The maps of the   *)
(* store and of the envelopes were made elsewhere: their ids are ids       *)
(* generateMapId does not hand out here.                                   *)
(***************************************************************************)
\* Records per envelope: 0..MaxBatch.
MaxBatch == 2

ForeignMarker(id) == Marker(id, "T", Num(10), Num(10), 1)

\* generateMapId hands out ids up to MaxIds + MaxBatch at most.
ForeignId(k) == MaxIds + MaxBatch + k

\* An old valid map without markers, a recent valid map with two markers,
\* and a map without title.
ForeignRecs ==
    {MapRec(ForeignId(1), "A", 1, <<>>),
     MapRec(ForeignId(2), "B", MaxCreated, <<ForeignMarker(1), ForeignMarker(2)>>),
     MapRec(ForeignId(1), "", 1, <<>>)}

ForeignSeqs(n) == UNION {[1..k -> ForeignRecs] : k \in 0..n}

ImportedSettings == [k \in {"theme", "language"} |-> IF k = "theme" THEN "blue" ELSE "en"]

MalformedEnvelopes ==
    {Envelope("unparseable", <<>>, <<>>), Envelope("nomaps", <<>>, <<>>),
     Envelope("nomaps", <<>>, <<ImportedSettings>>)}

ImportEnvelopes ==
    MalformedEnvelopes
    \cup {Envelope("envelope", ms, settings) :
            ms \in ForeignSeqs(MaxBatch), settings \in {<<>>, <<ImportedSettings>>}}

\* The i-th map of the store: recent maps with markers and old maps without,
\* in turn.
StoredRec(i) ==
    IF i % 2 = 1
    THEN MapRec(ForeignId(i), "B", MaxCreated, <<ForeignMarker(1), ForeignMarker(2)>>)
    ELSE MapRec(ForeignId(i), "A", 1, <<>>)

StoredSeqs == {[i \in 1..k |-> StoredRec(i)] : k \in 0..MAX_MAPS}

InitImport ==
    \E maps \in StoredSeqs, settings \in SettingsItems :
        /\ localStorage = [k \in {STORAGE_KEY, SETTINGS_KEY} |->
                              IF k = STORAGE_KEY THEN Stringify(maps) ELSE settings]
        /\ nextId = 1
        /\ now = MaxNow + 1
        /\ ret = Ret("init", Outcome(EmptyStorage, 1))
        /\ inserted = <<>>
        /\ editor = NoEditor

SettingsEnvs(jsonData) == IF jsonData.settings = <<>> THEN {"ok"} ELSE {"ok", "quota"}

\* importMaps of a file, the store accepting the collection or full.
ImportFile ==
    \E jsonData \in ImportEnvelopes, replace \in BOOLEAN, env \in {"ok", "quota"} :
        \E settingsEnv \in SettingsEnvs(jsonData) :
            ImportStep(jsonData, replace, env, settingsEnv)

\* importMaps(exportAllMaps(), true).
RoundTripStep ==
    /\ nextId + Len(getAllMaps(localStorage, "ok")) <= MaxIds + 1
    /\ Apply("roundtrip",
             importMaps(localStorage, nextId, now, exportAllMaps(localStorage, "ok"),
                        TRUE, "ok", "ok"))
    /\ UNCHANGED <<now, inserted, editor>>

NextImport ==
    \/ ImportFile
    \/ RoundTripStep

SpecImport == InitImport /\ [][NextImport]_vars

(***************************************************************************)
(* The settings: reading and writing them on a store in any condition.     *)
(***************************************************************************)
UnparseableSettings == [kind |-> "unparseable", obj |-> <<>>]

\* Keys callers set: two of the defaults and one that is no default.
PartialKeys == {"theme", "language", "compact"}

\* Partial settings: any of these keys, set to one of two values.
Partials == {[k \in ks |-> v] : ks \in SUBSET PartialKeys, v \in {"x", "y"}}

\* What the settings entry holds at first: nothing, a text that is not JSON,
\* or an object with some of the keys.
StoredSettings ==
    {AbsentSettings, UnparseableSettings}
    \cup {ObjItem(partial) : partial \in {q \in Partials : \A k \in DOMAIN q : q[k] = "x"}}

InitSettings ==
    \E item \in {AbsentItem, Stringify(<<MapRec(1, "A", 1, <<>>)>>)},
       settings \in StoredSettings :
        /\ localStorage = [k \in {STORAGE_KEY, SETTINGS_KEY} |->
                              IF k = STORAGE_KEY THEN item ELSE settings]
        /\ nextId = 2
        /\ now = 1
        /\ ret = Ret("init", Outcome(EmptyStorage, 1))
        /\ inserted = <<>>
        /\ editor = NoEditor

GetSettingsStep(env) ==
    /\ Apply("getSettings", getSettingsCall(localStorage, nextId, env))
    /\ UNCHANGED <<now, inserted, editor>>

GetSettings == \E env \in {"ok", "unavailable"} : GetSettingsStep(env)

SaveSettingsStep(settings, env) ==
    /\ Apply("saveSettings", saveSettingsCall(localStorage, nextId, settings, env))
    /\ UNCHANGED <<now, inserted, editor>>

SaveSettings == \E settings \in Partials, env \in Envs : SaveSettingsStep(settings, env)

NextSettings ==
    \/ GetSettings
    \/ SaveSettings

SpecSettings == InitSettings /\ [][NextSettings]_vars

(***************************************************************************)
(* Cleaning a store that holds valid and invalid maps and markers.         *)
(***************************************************************************)
\* A valid marker, a marker without titre, and a marker north of the pole.
GoodMarker == Marker(1, "T", Num(10), Num(10), 1)
UntitledMarker == Marker(2, "", Num(10), Num(10), 1)
FarMarker == Marker(3, "T", Num(100), Num(10), 1)

\* A valid map without markers, valid maps whose markers are not all valid,
\* and a map without title.
CleanupRecs ==
    {MapRec(1, "A", 1, <<>>),
     MapRec(2, "B", 1, <<GoodMarker, UntitledMarker>>),
     MapRec(3, "C", 1, <<FarMarker>>),
     MapRec(3, "", 1, <<GoodMarker>>)}

InitCleanup ==
    \E maps \in UNION {[1..n -> CleanupRecs] : n \in 0..MaxReadMaps} :
        /\ localStorage = [EmptyStorage EXCEPT ![STORAGE_KEY] = Stringify(maps)]
        /\ nextId = MaxReadMaps + 1
        /\ now = 1
        /\ ret = Ret("init", Outcome(EmptyStorage, 1))
        /\ inserted = <<>>
        /\ editor = NoEditor

SpecCleanup == InitCleanup /\ [][CleanupStorage]_vars

(***************************************************************************)
(* Migrating a store that holds maps of several versions.                  *)
(***************************************************************************)
\* A map of the current version, a map without version, center and zoom whose
\* marker has no `created`, a map of another version, and a map without
\* version and without title.
MigrateRecs ==
    {[MapRec(1, "A", 1, <<>>) EXCEPT !.version = VERSION],
     [MapRec(2, "B", 1, <<Marker(1, "T", Num(10), Num(10), 0)>>)
         EXCEPT !.center = 0, !.zoom = 0],
     [MapRec(3, "C", 1, <<>>) EXCEPT !.version = VERSION + 1, !.center = 2],
     MapRec(3, "", 1, <<>>)}

InitMigrate ==
    \E maps \in UNION {[1..n -> MigrateRecs] : n \in 0..MaxReadMaps} :
        /\ localStorage = [EmptyStorage EXCEPT ![STORAGE_KEY] = Stringify(maps)]
        /\ nextId = MaxReadMaps + 1
        /\ now = 1
        /\ ret = Ret("init", Outcome(EmptyStorage, 1))
        /\ inserted = <<>>
        /\ editor = NoEditor

MigrateStep(toVersion, env) ==
    /\ Apply("migrate", migrateMaps(localStorage, nextId, now, toVersion, env))
    /\ UNCHANGED <<now, inserted, editor>>

\* migrateMaps to the current version or to the next one.
MigrateTo == \E toVersion \in {VERSION, VERSION + 1}, env \in Envs : MigrateStep(toVersion, env)

SpecMigrate == InitMigrate /\ [][MigrateTo]_vars

(***************************************************************************)
(* The list page loading.  Two DOMContentLoaded handlers run: the one of   *)
(* map-storage.js, then the one of the list page.  The 300 ms timer of     *)
(* loadAndDisplayMaps is taken with the handler that starts it.            *)
(***************************************************************************)
UNAVAILABLE_MESSAGE == "Le stockage local n'est pas disponible"
UNAVAILABLE_TOAST == "Stockage local non disponible - les donnees ne seront pas sauvegardees"

\* isStorageAvailable: the probe writes and removes a key; it answers false
\* when the store is closed and when it is full.
isStorageAvailable(env) == env = "ok"

\* The handler of map-storage.js; result is what the user is shown.
\* hasShowToast: the page defines a function showToast (the list page does
\* not, the editor does).
storageInit(ls, nid, env, hasShowToast) ==
    IF ~isStorageAvailable(env)
    THEN [Outcome(ls, nid) EXCEPT !.result = IF hasShowToast THEN <<UNAVAILABLE_TOAST>>
                                                         ELSE <<>>]
    ELSE IF Len(getAllMaps(ls, env)) * 10 > MAX_MAPS * 9
         THEN [cleanupStorage(ls, nid, env) EXCEPT !.counts = <<>>]
         ELSE Outcome(ls, nid)

\* updateStats (part_002:486-490) calls MapStorage.getStorageSize, a method
\* the class MapStorage does not have: the call throws this TypeError.
ErrNoStorageSize == "TypeError: MapStorage.getStorageSize is not a function"
\* The text loadAndDisplayMaps puts in the error state when its body throws.
LOAD_ERROR_MESSAGE == "Erreur lors du chargement des cartes"

\* What loadAndDisplayMaps leaves on the page for the maps it read: the
\* empty state, or the grid and then, updateStats having thrown, the error
\* state with its text.
loadOutcome(o, allMaps) ==
    IF Len(allMaps) = 0
    THEN [o EXCEPT !.value = 1, !.path = "emptyState", !.counts = <<0>>]
    ELSE [o EXCEPT !.value = 1, !.path = "errorState", !.counts = <<Len(allMaps)>>,
                   !.result = Append(o.result, LOAD_ERROR_MESSAGE)]

\* Mutant: the list page loads the maps whatever the probe answers.
listPageInit_LoadsAnyway(ls, nid, env) ==
    LET o == storageInit(ls, nid, env, FALSE)
    IN  loadOutcome(o, getAllMaps(o.ls, env))

\* Both handlers on the list page.  value: loadAndDisplayMaps was called;
\* path: the state shown last; result: the texts shown; counts: the number
\* of maps displayed, if any.
listPageInit(ls, nid, env) ==
    LET o == storageInit(ls, nid, env, FALSE)
    IN  IF ~isStorageAvailable(env)
        THEN [o EXCEPT !.result = Append(o.result, UNAVAILABLE_MESSAGE),
                       !.path = "errorState"]
        ELSE loadOutcome(o, getAllMaps(o.ls, env))

ListPageStep(env) ==
    /\ Apply("listInit", listPageInit(localStorage, nextId, env))
    /\ UNCHANGED <<now, inserted, editor>>

ListPageLoad == \E env \in Envs : ListPageStep(env)

SpecListPage == InitRead /\ [][ListPageLoad]_vars

(***************************************************************************)
(* The editor's markers.  `marqueurs` is what autoSave copies into         *)
(* currentMapData.markers each time a marker is added or deleted, so the   *)
(* markers of the working copy stand for it.                               *)
(***************************************************************************)
\* Markers per map in the model: 0..MaxMarkers.
MaxMarkers == 3

marqueurs == editor.currentMapData.markers

\* Mutant: the coordinates are not compared with their limits.
AddMarkerRejection_NoRange(titre, lat, lon) ==
    IF titre = "" THEN "Le titre est obligatoire"
    ELSE IF ~IsNumber(lat) \/ ~IsNumber(lon) THEN "Coordonnées invalides"
    ELSE ""

\* handleAddMarker: the toast of the rejection ("" when the form is
\* accepted).
AddMarkerRejection(titre, lat, lon) ==
    IF titre = "" THEN "Le titre est obligatoire"
    ELSE IF ~IsNumber(lat) \/ ~IsNumber(lon) THEN "Coordonnées invalides"
    ELSE IF lat.value < -90 \/ lat.value > 90 \/ lon.value < -180 \/ lon.value > 180
         THEN "Coordonnées hors limites"
    ELSE ""

\* The add-marker form submitted: the marker gets the id Date.now().
HandleAddMarkerStep(titre, lat, lon, env) ==
    /\ CanSave
    /\ Len(marqueurs) < MaxMarkers
    /\ IF AddMarkerRejection(titre, lat, lon) # ""
       THEN /\ editor' = [editor EXCEPT
                             !.toasts = {showToast(AddMarkerRejection(titre, lat, lon),
                                                   "error")},
                             !.handler = "handleAddMarker", !.saveError = ""]
            /\ UNCHANGED <<localStorage, nextId, now, ret, inserted>>
       ELSE AfterAutoSave(
                autoSave([editor.currentMapData EXCEPT
                             !.markers = Append(@, Marker(now, titre, lat, lon, now))],
                         localStorage, nextId, now, env, TRUE),
                "handleAddMarker",
                {showToast("Marqueur ajouté avec succès", "success")})

\* What the form holds: a titre or none, and coordinates that are in range,
\* beyond a limit on either side, or no number.
FormLats == {Num(10), Num(100), Num(-100), NaNValue}
FormLons == {Num(10), Num(200), Num(-200), NaNValue}

HandleAddMarker ==
    \E titre \in {"", "T"}, lat \in FormLats, lon \in FormLons, env \in {"ok", "quota"} :
        HandleAddMarkerStep(titre, lat, lon, env)

\* deleteMarker(markerId): the first marker with that id is removed.
DeleteMarker ==
    \E markerId \in 1..MaxNow, env \in {"ok", "quota"} :
        /\ CanSave
        /\ LET index == FindIndex(marqueurs, markerId) IN
           IF index = 0
           THEN /\ editor' = [editor EXCEPT
                                 !.toasts = {showToast("Marqueur non trouvé", "error")},
                                 !.handler = "deleteMarker", !.saveError = ""]
                /\ UNCHANGED <<localStorage, nextId, now, ret, inserted>>
           ELSE AfterAutoSave(
                    autoSave([editor.currentMapData EXCEPT
                                 !.markers = SubSeq(@, 1, index - 1)
                                             \o SubSeq(@, index + 1, Len(@))],
                             localStorage, nextId, now, env, TRUE),
                    "deleteMarker",
                    {showToast("supprimé", "success")})

NextMarkers ==
    \/ OpenNew
    \/ HandleAddMarker
    \/ DeleteMarker
    \/ Tick

SpecMarkers == Init /\ [][NextMarkers]_vars

(***************************************************************************)
(* Every writing operation on a store that holds settings: what each of    *)
(* them leaves alone.                                                      *)
(***************************************************************************)
InitFrame ==
    \E settings \in SettingsItems :
        /\ localStorage = [EmptyStorage EXCEPT ![SETTINGS_KEY] = settings]
        /\ nextId = 1
        /\ now = 1
        /\ ret = Ret("init", Outcome(EmptyStorage, 1))
        /\ inserted = <<>>
        /\ editor = NoEditor

\* The envelopes of ImportMaps, each with settings.
FrameEnvelopes == {Envelope("envelope", ms, <<ImportedSettings>>) : ms \in ImportSeqs}

\* importMaps(jsonData, true).
ImportReplace ==
    \E jsonData \in FrameEnvelopes, env \in Envs :
        \E settingsEnv \in SettingsEnvs(jsonData) :
            ImportStep(jsonData, TRUE, env, settingsEnv)

\* saveSettings of a theme.
SaveTheme == \E env \in Envs : SaveSettingsStep([k \in {"theme"} |-> "x"], env)

\* save of a valid map, the store accepting the write or full.
SaveValid ==
    \E mapData \in SaveInputs({"A"}, {1}), env \in {"ok", "quota"} :
        SaveStep(mapData, env, TRUE)

NextFrame ==
    \/ SaveValid
    \/ DeleteMap
    \/ DeleteAllMaps
    \/ CleanupStorage
    \/ MigrateMaps
    \/ ImportReplace
    \/ SaveTheme

SpecFrame == InitFrame /\ [][NextFrame]_vars

(***************************************************************************)
(* SpecReads: the operations that only read, on stores with valid and      *)
(* invalid maps, markers and settings.                                     *)
(***************************************************************************)
\* What a read hands back, and the store it leaves.
getAllMapsRead(ls, nid, env) ==
    [Outcome(ls, nid) EXCEPT !.result = getAllMaps(ls, env)]

getMapByIdRead(ls, nid, env, mapId) ==
    [Outcome(ls, nid) EXCEPT !.result = getMapById(ls, env, mapId)]

\* Mutant: the array sorted by getRecentMaps is written back.
getRecentMapsRead_StoresSorted(ls, nid, env, limit) ==
    [Outcome([ls EXCEPT ![STORAGE_KEY] =
                 Stringify(getRecentMaps(ls, env, Len(getAllMaps(ls, env))))], nid)
        EXCEPT !.result = getRecentMaps(ls, env, limit)]

getRecentMapsRead(ls, nid, env, limit) ==
    [Outcome(ls, nid) EXCEPT !.result = getRecentMaps(ls, env, limit)]

\* exportAllMaps: the envelope { version, exported, settings, maps }, as
\* JSON.parse reads the returned string back.
exportAllMapsCall(ls, nid, clock, env) ==
    LET exportData == exportAllMaps(ls, env)
    IN  [Outcome(ls, nid) EXCEPT
            !.result = <<[version |-> VERSION, exported |-> clock,
                          settings |-> exportData.settings[1],
                          maps |-> exportData.maps]>>]

OldestMap(maps) ==
    CHOOSE i \in 1..Len(maps) :
        /\ \A j \in 1..Len(maps) : maps[i].created <= maps[j].created
        /\ \A j \in 1..(i - 1) : maps[j].created > maps[i].created

NewestMap(maps) ==
    CHOOSE i \in 1..Len(maps) :
        /\ \A j \in 1..Len(maps) : maps[i].created >= maps[j].created
        /\ \A j \in 1..(i - 1) : maps[j].created < maps[i].created

\* getStorageStats: counts = <<totalMaps, maxMaps, totalMarkers>>, value = 1
\* and result = <<oldestMap, newestMap>> (nothing for null); value = 0 is
\* the null returned when the store throws while its keys are read.
getStorageStats(ls, nid, env) ==
    LET maps == getAllMaps(ls, env)
    IN  IF env = "unavailable" THEN Outcome(ls, nid)
        ELSE [Outcome(ls, nid) EXCEPT
                !.value = 1,
                !.counts = <<Len(maps), MAX_MAPS, MarkerTotal(maps)>>,
                !.result = IF maps = <<>> THEN <<>>
                           ELSE <<maps[OldestMap(maps)], maps[NewestMap(maps)]>>]

\* checkDataIntegrity:
\* counts = <<totalMaps, validMaps, invalidMaps, totalMarkers, invalidMarkers>>.
checkDataIntegrity(ls, nid, env) ==
    LET maps == getAllMaps(ls, env)
        valid == SelectSeq(maps, validateMapData)
        invalidMarkers(map) ==
            Cardinality({i \in 1..Len(map.markers) : ~validateMarkerData(map.markers[i])})
        RECURSIVE InvalidTotal(_)
        InvalidTotal(ms) ==
            IF ms = <<>> THEN 0 ELSE invalidMarkers(Head(ms)) + InvalidTotal(Tail(ms))
    IN  [Outcome(ls, nid) EXCEPT
            !.counts = <<Len(maps), Len(valid), Len(maps) - Len(valid),
                         MarkerTotal(valid), InvalidTotal(valid)>>]

MaxStored == 2

\* Stores without a readable array, and arrays of up to MaxStored records,
\* valid or not, with or without markers.
ReadsItems ==
    {AbsentItem, UnparseableItem, NonSeqItem}
    \cup {Stringify(maps) :
            maps \in UNION {[1..n -> ReadRecs \cup CleanupRecs] : n \in 0..MaxStored}}

\* The settings are stored or not.
InitReads ==
    \E item \in ReadsItems, settings \in SettingsItems :
        /\ localStorage = [k \in {STORAGE_KEY, SETTINGS_KEY} |->
                              IF k = STORAGE_KEY THEN item ELSE settings]
        /\ nextId = MaxIds + 1
        /\ now = 1
        /\ ret = Ret("init", Outcome(EmptyStorage, 1))
        /\ inserted = <<>>
        /\ editor = NoEditor

ReadStep(op, o) ==
    /\ Apply(op, o)
    /\ UNCHANGED <<now, inserted, editor>>

GetAllReadStep(env) == ReadStep("getAll", getAllMapsRead(localStorage, nextId, env))

GetAllRead == \E env \in ReadEnvs : GetAllReadStep(env)

GetByIdReadStep(mapId, env) ==
    ReadStep("getById", getMapByIdRead(localStorage, nextId, env, mapId))

GetByIdRead == \E mapId \in 1..MaxReadMaps, env \in ReadEnvs : GetByIdReadStep(mapId, env)

GetRecentReadStep(limit, env) ==
    ReadStep("getRecent", getRecentMapsRead(localStorage, nextId, env, limit))

GetRecentRead == \E limit \in 1..MaxReadMaps, env \in ReadEnvs : GetRecentReadStep(limit, env)

ExportAllStep(env) ==
    ReadStep("exportAll", exportAllMapsCall(localStorage, nextId, now, env))

ExportAll == \E env \in ReadEnvs : ExportAllStep(env)

GetStorageStatsStep(env) ==
    ReadStep("getStorageStats", getStorageStats(localStorage, nextId, env))

GetStorageStats == \E env \in ReadEnvs : GetStorageStatsStep(env)

CheckDataIntegrityStep(env) ==
    ReadStep("checkIntegrity", checkDataIntegrity(localStorage, nextId, env))

CheckDataIntegrity == \E env \in ReadEnvs : CheckDataIntegrityStep(env)

NextReads ==
    \/ GetAllRead
    \/ GetByIdRead
    \/ GetRecentRead
    \/ ExportAll
    \/ GetStorageStats
    \/ CheckDataIntegrity

SpecReads == InitReads /\ [][NextReads]_vars

(***************************************************************************)
(* The list page renaming a map.  executeMapRename calls                   *)
(* MapStorage.renameMap, a method the class MapStorage does not have: the  *)
(* call throws a TypeError before anything else happens.                   *)
(***************************************************************************)
ErrNotAFunction == "TypeError: MapStorage.renameMap is not a function"

\* executeMapRename(id, newName): the outcome of its first statement.
executeMapRename(ls, nid, id, newName) ==
    [Outcome(ls, nid) EXCEPT !.error = ErrNotAFunction]

RenameStep(id, newName) ==
    /\ Apply("rename", executeMapRename(localStorage, nextId, id, newName))
    /\ UNCHANGED <<now, inserted, editor>>

\* The rename form of the list page submitted for the map id.
ExecuteMapRename == \E id \in 1..MaxIds, newName \in {"X"} : RenameStep(id, newName)

NextList ==
    \/ SaveMap
    \/ DeleteMap
    \/ ExecuteMapRename
    \/ Tick

SpecList == Init /\ [][NextList]_vars

Ids(maps) == {maps[i].id : i \in 1..Len(maps)}

Range(seq) == {seq[i] : i \in 1..Len(seq)}

(***************************************************************************)
(* The list page (part_002).  In the specification of this section         *)
(* `editor` is the page: allMaps, filteredMaps, selectedMaps (a Set, kept  *)
(* in insertion order), the elements whose display the script has set to   *)
(* something other than 'none' (they start hidden), the text of the error  *)
(* state, whether the listeners are installed, whether the 300 ms timer of *)
(* loadAndDisplayMaps is pending, the last handler and the error it let    *)
(* escape.                                                                 *)
(***************************************************************************)
NoPage ==
    [allMaps |-> <<>>, filteredMaps |-> <<>>, selectedMaps |-> <<>>,
     visible |-> {}, message |-> "", listening |-> FALSE, timer |-> FALSE,
     handler |-> "", thrown |-> ""]

\* hideAllStates hides the loading, empty and error states, not the grid.
hideAllStates(visible) == visible \ {"loadingState", "emptyState", "errorState"}

showLoadingState(page) ==
    [page EXCEPT !.visible = hideAllStates(@) \cup {"loadingState"}]

showEmptyState(page) ==
    [page EXCEPT !.visible = hideAllStates(@) \cup {"emptyState"}]

showErrorState(page, message) ==
    [page EXCEPT !.visible = hideAllStates(@) \cup {"errorState"},
                 !.message = message]

showMapsGrid(page) ==
    [page EXCEPT !.visible = hideAllStates(@) \cup {"mapsGrid"}]

\* sortMaps under currentSort 'modified-desc', the criterion the page starts
\* with.
sortMaps(maps) ==
    [p \in 1..Len(maps) |-> maps[CHOOSE i \in 1..Len(maps) : RankByModified(maps, i) = p]]

\* toLowerCase on the titles and queries of this model.
toLowerCase(s) ==
    CASE s = "A" -> "a" [] s = "B" -> "b" [] s = "C" -> "c" [] OTHER -> s

\* String.includes for a title and a query of at most one character.
includes(title, query) == query = "" \/ title = query

\* The listener of the page: the error state when the probe fails, else the
\* listeners, the loading state and the timer.
DOMContentLoaded(page, env) ==
    IF ~isStorageAvailable(env)
    THEN [showErrorState(page, UNAVAILABLE_MESSAGE) EXCEPT !.handler = "DOMContentLoaded"]
    ELSE [showLoadingState(page) EXCEPT !.listening = TRUE, !.timer = TRUE,
                                        !.handler = "DOMContentLoaded"]

\* The callback of the timer.  With maps it shows the grid and calls
\* updateStats, whose TypeError its catch answers with the error state.
loadAndDisplayMaps(page, ls, env) ==
    LET allMaps == getAllMaps(ls, env)
        loaded == [page EXCEPT !.allMaps = allMaps, !.filteredMaps = sortMaps(allMaps),
                               !.timer = FALSE, !.handler = "loadAndDisplayMaps",
                               !.thrown = ""]
    IN  IF Len(allMaps) = 0
        THEN showEmptyState(loaded)
        ELSE showErrorState(showMapsGrid(loaded), LOAD_ERROR_MESSAGE)

\* handleSearch(query)
handleSearch(page, query) ==
    [page EXCEPT !.filteredMaps =
                     sortMaps(SelectSeq(page.allMaps,
                                        LAMBDA m : includes(toLowerCase(m.title),
                                                            toLowerCase(query)))),
                 !.handler = "handleSearch", !.thrown = ""]

\* The change listener of the checkbox of the card of id: the box was drawn
\* checked when the id was selected, so the change selects or deselects.
selectChange(page, id) ==
    [page EXCEPT !.selectedMaps =
                     IF id \in Range(@) THEN SelectSeq(@, LAMBDA s : s # id)
                                        ELSE Append(@, id),
                 !.handler = "selectChange", !.thrown = ""]

\* executeMapDeletion(id): the page after it and the outcome of its
\* deleteMap.  updateStats throws after the three collections of the page
\* were updated; toggleBulkActions is not reached.
executeMapDeletion(page, ls, nid, id, env) ==
    [page |-> [page EXCEPT !.allMaps = RemoveId(@, id),
                           !.filteredMaps = RemoveId(@, id),
                           !.selectedMaps = SelectSeq(@, LAMBDA s : s # id),
                           !.thrown = ErrNoStorageSize],
     o |-> deleteMap(ls, nid, id, env)]

\* handleBulkDelete: forEach ends with the exception of the first
\* executeMapDeletion; without a selected id the handler runs to its end.
handleBulkDelete(page, ls, nid, env) ==
    LET ids == page.selectedMaps
    IN  IF Len(ids) = 0
        THEN [page |-> [page EXCEPT !.selectedMaps = <<>>, !.thrown = ""],
              o |-> Outcome(ls, nid)]
        ELSE executeMapDeletion(page, ls, nid, ids[1], env)

InitPage ==
    \E item \in ReadsItems :
        /\ localStorage = [EmptyStorage EXCEPT ![STORAGE_KEY] = item]
        /\ nextId = MaxIds + 1
        /\ now = 1
        /\ ret = Ret("init", Outcome(EmptyStorage, 1))
        /\ inserted = <<>>
        /\ editor = NoPage

\* The page is loaded: the listener of map-storage.js, then the page's.
DOMContentLoadedStep(env) ==
    /\ editor.handler = ""
    /\ Apply("DOMContentLoaded", storageInit(localStorage, nextId, env, FALSE))
    /\ editor' = DOMContentLoaded(editor, env)
    /\ UNCHANGED <<now, inserted>>

PageLoad == \E env \in Envs : DOMContentLoadedStep(env)

LoadTimerStep(env) ==
    /\ editor.timer
    /\ Apply("loadAndDisplayMaps", Outcome(localStorage, nextId))
    /\ editor' = loadAndDisplayMaps(editor, localStorage, env)
    /\ UNCHANGED <<now, inserted>>

LoadTimer == \E env \in ReadEnvs : LoadTimerStep(env)

HandleSearchStep(query) ==
    /\ editor.listening
    /\ Apply("handleSearch", Outcome(localStorage, nextId))
    /\ editor' = handleSearch(editor, query)
    /\ UNCHANGED <<now, inserted>>

HandleSearch == \E query \in {"", "a", "B"} : HandleSearchStep(query)

\* The checkbox of a displayed card is clicked.
SelectChange ==
    \E id \in Ids(editor.filteredMaps) :
        /\ editor.listening
        /\ Apply("selectChange", Outcome(localStorage, nextId))
        /\ editor' = selectChange(editor, id)
        /\ UNCHANGED <<now, inserted>>

\* The deletion of the map of a displayed card is confirmed in the modal.
ConfirmDeleteStep(id, env) ==
    /\ editor.listening
    /\ \E r \in {executeMapDeletion(editor, localStorage, nextId, id, env)} :
          /\ Apply("executeMapDeletion", r.o)
          /\ editor' = [r.page EXCEPT !.handler = "confirmDelete"]
    /\ UNCHANGED <<now, inserted>>

ConfirmDelete ==
    \E id \in Ids(editor.filteredMaps), env \in ReadEnvs : ConfirmDeleteStep(id, env)

\* The bulk delete button is clicked, or the Delete key pressed with a
\* selection.
HandleBulkDeleteStep(env) ==
    /\ editor.listening
    /\ \E r \in {handleBulkDelete(editor, localStorage, nextId, env)} :
          /\ Apply("handleBulkDelete", r.o)
          /\ editor' = [r.page EXCEPT !.handler = "handleBulkDelete"]
    /\ UNCHANGED <<now, inserted>>

HandleBulkDelete == \E env \in ReadEnvs : HandleBulkDeleteStep(env)

\* The rename form of a displayed card is submitted.
RenameFromCard ==
    /\ editor.listening
    /\ \E id \in Ids(editor.filteredMaps) : RenameStep(id, "X")

NextPage ==
    \/ PageLoad
    \/ LoadTimer
    \/ HandleSearch
    \/ SelectChange
    \/ ConfirmDelete
    \/ HandleBulkDelete
    \/ RenameFromCard

SpecPage == InitPage /\ [][NextPage]_vars

(***************************************************************************)
(* SpecSessions: two sessions (two tabs of the application) on the same    *)
(* store, each working on a map of its own.  A session opens a new map in  *)
(* the editor, saves it under one title or another, renames it or deletes  *)
(* it from the list page.  Every operation runs from its first statement   *)
(* to its last without the other session running: the pages are scripts   *)
(* of one origin and the repository methods are synchronous.  In this      *)
(* specification editor[s] is the editor of session s.                     *)
(***************************************************************************)
Sessions == {1, 2}

\* A map opened in a session before every stored map was created, and not
\* saved yet.
OldestCreated == 1

\* Stored maps, created after OldestCreated, in any order.
SessionStores ==
    {maps \in UNION {[1..n -> {MapRec(id, "S", c, <<>>) :
                                  id \in 1..MAX_MAPS,
                                  c \in {OldestCreated + 1, OldestCreated + 2}}] :
                        n \in 0..MAX_MAPS} :
        \A i, j \in 1..Len(maps) : i # j => maps[i].id # maps[j].id}

InitSessions ==
    \E maps \in SessionStores,
       open \in [Sessions -> {NoRec, initializeNewMap(OldestCreated)}] :
        /\ localStorage = [EmptyStorage EXCEPT ![STORAGE_KEY] = Stringify(maps)]
        /\ nextId = MAX_MAPS + 1
        /\ now = OldestCreated + 2
        /\ ret = Ret("init", Outcome(EmptyStorage, 1))
        /\ inserted = <<>>
        /\ editor = [s \in Sessions |-> [NoEditor EXCEPT !.currentMapData = open[s]]]

\* Session s opens the editor on a new map.
SessionOpen ==
    \E s \in Sessions :
        /\ editor[s].currentMapData = NoRec
        /\ editor' = [editor EXCEPT ![s].currentMapData = initializeNewMap(now),
                                    ![s].handler = "DOMContentLoaded"]
        /\ UNCHANGED <<localStorage, nextId, now, ret, inserted>>

\* Session s saves its map under the title given (autoSave).
SessionSaveStep(s, title, env, remOk) ==
    /\ editor[s].currentMapData # NoRec
    /\ editor[s].currentMapData.id = 0 => nextId <= MAX_MAPS + Cardinality(Sessions)
    /\ \E a \in {autoSave([editor[s].currentMapData EXCEPT !.title = title],
                           localStorage, nextId, now, env, remOk)} :
            /\ Apply("save", a.o)
            /\ editor' = [editor EXCEPT ![s].currentMapData = a.currentMapData,
                                        ![s].handler = "autoSave",
                                        ![s].saveError = a.saveError,
                                        ![s].url = IF a.replaceState # <<>>
                                                   THEN a.replaceState[1] ELSE @]
    /\ UNCHANGED <<now, inserted>>

SessionSave ==
    \E s \in Sessions, title \in {"A", "B"}, env \in {"ok", "quota"} :
        \E remOk \in RemOks(env) : SessionSaveStep(s, title, env, remOk)

\* Session s, on the list page, deletes the map it saved.
SessionDeleteStep(s, env) ==
    /\ editor[s].currentMapData.id > 0
    /\ Apply("delete", deleteMap(localStorage, nextId, editor[s].currentMapData.id, env))
    /\ editor' = [editor EXCEPT ![s] = NoEditor]
    /\ UNCHANGED <<now, inserted>>

SessionDelete == \E s \in Sessions, env \in {"ok", "quota"} : SessionDeleteStep(s, env)

\* Session s, on the list page, submits the rename form for the map it saved.
SessionRename ==
    \E s \in Sessions :
        /\ editor[s].currentMapData.id > 0
        /\ RenameStep(editor[s].currentMapData.id, "X")

NextSessions ==
    \/ SessionOpen
    \/ SessionSave
    \/ SessionDelete
    \/ SessionRename

SpecSessions == InitSessions /\ [][NextSessions]_vars

(***************************************************************************)
(* SpecDirty: writing operations on stores that hold more than getAllMaps  *)
(* returns: records that fail validateMapData, a text that is not JSON, a  *)
(* JSON value that is not an array.                                        *)
(***************************************************************************)
\* importMaps(jsonData, false).
ImportMerge ==
    \E jsonData \in Envelopes, env \in Envs :
        /\ nextId + CountValid(jsonData.maps) <= MaxIds + MaxImport + 1
        /\ Apply("import",
                 importMaps(localStorage, nextId, now, jsonData, FALSE, env, "ok"))
        /\ UNCHANGED <<now, inserted, editor>>

NextDirty ==
    \/ SaveValid
    \/ DeleteMap
    \/ ImportMerge
    \/ MigrateMaps

SpecDirty == InitReads /\ [][NextDirty]_vars

(***************************************************************************)
(* SpecIntegrity: cleanupStorage and checkDataIntegrity on stores that     *)
(* hold invalid maps and invalid markers.                                  *)
(***************************************************************************)
NextIntegrity ==
    \/ CleanupStorage
    \/ CheckDataIntegrity

SpecIntegrity == InitCleanup /\ [][NextIntegrity]_vars

(***************************************************************************)
(* SpecDiagnostics: runDiagnostics on stores that hold invalid maps and    *)
(* invalid markers.                                                        *)
(***************************************************************************)
\* runDiagnostics: nothing but the probe when the store is not available;
\* otherwise checkDataIntegrity and getStorageInfo, which only read, the
\* read of originalData, which is not used again, and cleanupStorage.
\* counts are the cleanupResults, result the errors collected.
runDiagnostics(ls, nid, env) ==
    IF ~isStorageAvailable(env)
    THEN [Outcome(ls, nid) EXCEPT !.result = <<"localStorage non disponible">>]
    ELSE LET c == cleanupStorage(ls, nid, env)
         IN  [Outcome(c.ls, nid) EXCEPT !.value = 1, !.counts = c.counts,
                                        !.result = IF c.error = "" THEN <<>> ELSE <<c.error>>]

RunDiagnostics ==
    \E env \in Envs :
        /\ Apply("runDiagnostics", runDiagnostics(localStorage, nextId, env))
        /\ UNCHANGED <<now, inserted, editor>>

SpecDiagnostics == InitCleanup /\ [][RunDiagnostics]_vars

(***************************************************************************)
(* SpecAddMarker: the add-marker form alone, on a new map holding up to    *)
(* two markers.                                                            *)
(***************************************************************************)
AddMarkerForm ==
    /\ Len(marqueurs) < 2
    /\ HandleAddMarker

NextAddMarker ==
    \/ OpenNew
    \/ AddMarkerForm
    \/ Tick

SpecAddMarker == Init /\ [][NextAddMarker]_vars

(***************************************************************************)
(* SpecMarkerEdit: markers added through the form and edited through the   *)
(* edit form of the markers list.                                          *)
(***************************************************************************)
\* validateMarkerEdit(e, markerId): the marker list and the toast it leaves.
\* The marker, when found, gets the values of the form; the statement
\* `if (shouldSave)` then reads a name that validateMarkerEdit does not
\* declare and no script of the page defines: it throws a ReferenceError,
\* autoSave is not called, and the catch shows the error toast.
validateMarkerEdit(markers, markerId, titre, couleur, icone, clock) ==
    LET index == FindIndex(markers, markerId)
    IN  IF index = 0
        THEN [markers |-> markers, thrown |-> "",
              toasts |-> {showToast("Marqueur non trouvé", "error")}]
        ELSE [markers |-> [markers EXCEPT ![index].titre = titre,
                                          ![index].couleur = couleur,
                                          ![index].icone = icone],
              thrown |-> "ReferenceError",
              toasts |-> {showToast("Erreur lors de la modification", "error")}]

ValidateMarkerEditStep(markerId, titre, couleur, icone) ==
    /\ PageLoaded
    /\ \E v \in {validateMarkerEdit(marqueurs, markerId, titre, couleur, icone, now)} :
          editor' = [editor EXCEPT !.currentMapData.markers = v.markers,
                                   !.toasts = v.toasts,
                                   !.handler = "validateMarkerEdit",
                                   !.saveError = ""]
    /\ UNCHANGED <<localStorage, nextId, now, ret, inserted>>

\* The edit form of a marker submitted.
ValidateMarkerEdit ==
    \E markerId \in 1..MaxNow : ValidateMarkerEditStep(markerId, "U", "blue", "pin")

NextMarkerEdit ==
    \/ OpenNew
    \/ HandleAddMarker
    \/ ValidateMarkerEdit
    \/ Tick

SpecMarkerEdit == Init /\ [][NextMarkerEdit]_vars

\* The collection the repository reads: the valid stored records, in order.
Collection == getAllMaps(localStorage, "ok")

\* C3: a successful save of a valid record whose id is already in the
\* collection leaves the number of records of the collection as it was, and
\* getById(id) then returns the record just saved (with its new `modified`);
\* so it is for the first such save and for the second, which differs from
\* the first in `modified` alone.
C3_ResaveKeepsSize ==
    [][\A mapData \in SaveInputs({"A"}, CreatedEnds) :
          (/\ mapData.id \in Ids(Collection)
           /\ SaveStep(mapData, "ok", TRUE))
          => /\ Len(Collection') = Len(Collection)
             /\ getMapById(localStorage', "ok", mapData.id)
                    = <<StampMap(mapData, nextId, now)>>]_vars

\* The record has just been saved again with nothing but `modified` changed,
\* beside another record.
C3_Witness ==
    /\ ret.op = "save"
    /\ ret.error = ""
    /\ ret.same
    /\ Len(Stored) = MAX_MAPS
    /\ getMapById(localStorage, "ok", ret.value) # <<>>
    /\ getMapById(localStorage, "ok", ret.value)[1].modified = MaxNow

\* C4: a successful save returns the id of the record it saved.  Without an
\* id the record gets an id no record of the collection has, and is put
\* behind the records of the collection, which is then cut down to the cap.
\* With the id of a record of the collection, the record takes that
\* record's place and the others stay where they are.  (A step is the save
\* of mapData when the generator has moved as that save moves it and the
\* store and the returned value are those of the save.)
C4_SaveInsertsOrUpdates ==
    [][\A mapData \in SaveAnyInputs :
          (/\ nextId' = IF mapData.id = 0 THEN nextId + 1 ELSE nextId
           /\ SaveStep(mapData, "ok", TRUE))
          => LET stamped == StampMap(mapData, nextId, now)
                 at == FindIndex(Collection, mapData.id)
             IN  /\ ret'.value = stamped.id
                 /\ stamped.id # 0
                 /\ mapData.id = 0 =>
                      /\ ret'.path = "insert"
                      /\ stamped.id \notin Ids(Collection)
                      /\ Len(Collection) < MAX_MAPS => Stored' = Append(Collection, stamped)
                      /\ Len(Collection) >= MAX_MAPS =>
                             /\ Len(Stored') = MAX_MAPS
                             /\ \A i \in 1..Len(Stored') :
                                   \/ Stored'[i] = stamped
                                   \/ \E j \in 1..Len(Collection) : Stored'[i] = Collection[j]
                 /\ at > 0 =>
                      /\ ret'.path = "update"
                      /\ Len(Stored') = Len(Collection)
                      /\ Stored'[at] = stamped
                      /\ \A j \in 1..Len(Collection) : j # at => Stored'[j] = Collection[j]]_vars

\* An update has just replaced the first of several records.
C4_Witness ==
    /\ ret.op = "save"
    /\ ret.error = ""
    /\ ret.path = "update"
    /\ Len(Stored) >= 2
    /\ Stored[1].id = ret.value
    /\ Stored[1].modified = MaxNow

\* C5: the stored record of an id keeps its `created` through every save,
\* migrate and cleanup (a rename is a save of the record with a new title).
C5_CreatedNeverChanges ==
    [][ret'.op \in {"save", "migrate", "cleanup"} =>
          \A i \in 1..Len(Stored), j \in 1..Len(Stored') :
              Stored[i].id = Stored'[j].id => Stored[i].created = Stored'[j].created]_vars

RemovedOldest(before, after, k) ==
    \E b \in {before}, a \in {after} :
        /\ Len(a) = Len(b) - k
        /\ \A j \in 1..Len(a) : \E i \in 1..Len(b) : a[j] = b[i]
        /\ Cardinality({a[j].id : j \in 1..Len(a)}) = Len(a)
        /\ \A i \in 1..Len(b), j \in 1..Len(a) :
              b[i].id \notin {a[h].id : h \in 1..Len(a)} => b[i].created <= a[j].created

\* C7 as claimed: a save whose write meets the quota, on a collection of n
\* valid maps, removes the floor(n/4) records with the oldest `created` and
\* keeps the others, whatever n is (the remediation's own write succeeding).
C7_RemediationRemovesQuarter ==
    [][\A mapData \in QuotaInputs :
          QuotaSaveStep(mapData, TRUE)
              => RemovedOldest(Collection, Collection', Len(Collection) \div 4)]_vars

\* C7, amended: the floor(n/4) oldest records are removed when n is more
\* than 10 and the remediation's own write succeeds; otherwise the store is
\* left as it was.
C7_RemediationAboveTen ==
    [][\A mapData \in QuotaInputs, remOk \in BOOLEAN :
          QuotaSaveStep(mapData, remOk) =>
              IF Len(Collection) > 10 /\ remOk
              THEN RemovedOldest(Collection, Collection', Len(Collection) \div 4)
              ELSE localStorage' = localStorage]_vars

\* The failing insert into 20 scattered records has left the 15 most recent.
C7_Witness ==
    /\ ret.op = "save"
    /\ ret.error = ErrQuota
    /\ ret.path = "insert"
    /\ ret.remediated = 5
    /\ Len(Stored) = 15
    /\ \A j \in 1..Len(Stored) : Stored[j].created > 5
    /\ \E j \in 1..Len(Stored) : Stored[j].id < 5

\* C8: a save whose write meets the quota makes one remediation pass and
\* one write of the record, ends with the quota error, and leaves a stored
\* collection without the record it was saving; a record of that id that is
\* still stored is the version stored before.
C8_NoRetryAfterRemediation ==
    [][\A mapData \in QuotaInputs, remOk \in BOOLEAN :
          QuotaSaveStep(mapData, remOk) =>
              LET stamped == StampMap(mapData, nextId, now)
              IN  /\ ret'.error = ErrQuota
                  /\ ret'.failed
                  /\ ret'.rems = 1
                  /\ ret'.writes = 1
                  /\ \A j \in 1..Len(Stored') :
                        /\ Stored'[j] # stamped
                        /\ Stored'[j].id = stamped.id
                              => \E i \in 1..Len(Stored) : Stored[i] = Stored'[j]]_vars

\* The failing update of a record of 20 has ended after its remediation.
C8_Witness ==
    /\ ret.op = "save"
    /\ ret.error = ErrQuota
    /\ ret.path = "update"
    /\ ret.rems = 1
    /\ ret.remediated = 5
    /\ Len(Stored) = 15

\* C9: when MapStorage.saveMap throws in a manual or an automatic save of
\* the editor, the save shows an error notification and no success
\* notification.
C9_FailedSaveNotified ==
    (editor.handler \in {"saveCurrentMap", "autoSave"} /\ editor.saveError # "") =>
        /\ \E t \in editor.toasts : t.type = "error"
        /\ \A t \in editor.toasts : t.type # "success"

\* The read of the collection fails: the store throws, or holds text that
\* is not JSON, or JSON that is not an array.
ReadFails(env) ==
    \/ env = "unavailable"
    \/ localStorage[STORAGE_KEY].kind \in {"unparseable", "nonseq"}

\* C10: getAll, getById and getRecent never raise; when the read of the
\* store fails, or the stored value cannot be parsed or is not a sequence,
\* getAll and getRecent return the empty collection and getById null.
C10_ReadsNeverRaise ==
    [][\A env \in ReadEnvs :
          (\/ GetAllStep(env)
           \/ \E mapId \in 1..MaxReadMaps : GetByIdStep(mapId, env)
           \/ \E limit \in 1..MaxReadMaps : GetRecentStep(limit, env))
          => /\ ret'.error = ""
             /\ ReadFails(env) => ret'.result = <<>>]_vars

\* getRecent has just returned the empty collection from a store that does
\* not hold an array.
C10_Witness ==
    /\ ret.op = "getRecent"
    /\ ret.error = ""
    /\ ret.result = <<>>
    /\ localStorage[STORAGE_KEY].kind = "nonseq"

\* What the claims call isValidMap: a non-empty string id, a non-empty
\* title, `created` and `modified` present.
HasRequiredFields(r) ==
    /\ r.id > 0
    /\ r.title # ""
    /\ r.created # 0
    /\ r.modified # 0

\* C11: whatever the store holds, every record getAll returns has the
\* required fields, and when the store answers, getAll returns the stored
\* records that have them, all of them and in the stored order.
C11_GetAllReturnsValidInOrder ==
    [][\A env \in ReadEnvs :
          GetAllStep(env) =>
              /\ \A i \in 1..Len(ret'.result) : HasRequiredFields(ret'.result[i])
              /\ env = "ok" => ret'.result = SelectSeq(Stored, HasRequiredFields)]_vars

\* getAll has just returned the two valid records around an invalid one.
C11_Witness ==
    /\ ret.op = "getAll"
    /\ Len(Stored) = 3
    /\ ~HasRequiredFields(Stored[2])
    /\ ret.result = <<Stored[1], Stored[3]>>

\* What the claims call isValidMarker: an id, a non-empty titre, a numeric
\* lat in [-90, 90], a numeric lon in [-180, 180], couleur and icone.
IsValidMarkerClaimed(m) ==
    /\ m.id # 0
    /\ m.titre # ""
    /\ m.lat.type = "number" /\ m.lat.value >= -90 /\ m.lat.value <= 90
    /\ m.lon.type = "number" /\ m.lon.value >= -180 /\ m.lon.value <= 180
    /\ m.couleur # ""
    /\ m.icone # ""

\* C12: validateMarkerData answers true exactly for the markers with an
\* id, a non-empty titre, a numeric lat in [-90, 90], a numeric lon in
\* [-180, 180], and couleur and icone; lat = 100 is rejected.
C12_MarkerValidInRange ==
    (ret.op = "validateMarker" /\ HasMarker)
        => (ret.value = 1 <=> IsValidMarkerClaimed(StoredMarker))

\* C13: a delete with an id that no record of the collection has returns
\* false, writes nothing, and leaves the store (collection and settings) as
\* it was.
C13_DeleteUnknownId ==
    [][\A mapId \in 1..MaxIds, env \in Envs :
          (/\ mapId \notin Ids(Collection)
           /\ DeleteStep(mapId, env))
          => /\ ret'.value = 0
             /\ ret'.error = ""
             /\ ret'.writes = 0
             /\ localStorage' = localStorage]_vars

\* A delete has just returned false without a write, from a store that
\* holds settings, valid records and a record getAll drops.
C13_Witness ==
    /\ ret.op = "delete"
    /\ ret.value = 0
    /\ ret.writes = 0
    /\ localStorage[SETTINGS_KEY].kind = "obj"
    /\ Len(Collection) = 2
    /\ Len(Stored) = 3

\* C14: a delete with the id of a record of the collection, its write
\* succeeding, returns true; afterwards getById(id) is null and the
\* collection is the one before without the records of that id, the others
\* unchanged and in the same order.
C14_DeleteRemovesOnlyThatId ==
    [][\A mapId \in 1..MaxIds :
          (/\ mapId \in Ids(Collection)
           /\ DeleteStep(mapId, "ok"))
          => /\ ret'.value = 1
             /\ getMapById(localStorage', "ok", mapId) = <<>>
             /\ Collection' = SelectSeq(Collection, LAMBDA m : m.id # mapId)
             /\ localStorage'[SETTINGS_KEY] = localStorage[SETTINGS_KEY]]_vars

\* A delete has just returned true and left two records.
C14_Witness ==
    /\ ret.op = "delete"
    /\ ret.value = 1
    /\ ret.writes = 1
    /\ Len(Stored) = 2
    /\ Stored[1].id # Stored[2].id

\* C15: a rename with an id no record has throws nothing and leaves every
\* record as it was; with the id of a record it sets the title of that
\* record to newTitle and its `modified` to the time of the call, and
\* leaves the other records as they were.
C15_RenameSetsTitle ==
    [][\A id \in 1..MaxIds, newName \in {"X"} :
          RenameStep(id, newName) =>
              /\ ret'.error = ""
              /\ Len(Collection') = Len(Collection)
              /\ \A i \in 1..Len(Collection) :
                    Collection'[i] = IF Collection[i].id = id
                                     THEN [Collection[i] EXCEPT !.title = newName,
                                                                !.modified = now]
                                     ELSE Collection[i]]_vars

WellFormedEnvelopes == ImportEnvelopes \ MalformedEnvelopes

\* C16: importMaps of a text that is not JSON, or of an envelope whose `maps`
\* is missing or is not an array, ends with an error and leaves the stored
\* collection and the stored settings as they were, with replace and without.
C16_MalformedImportNoSideEffects ==
    \A jsonData \in MalformedEnvelopes, replace \in BOOLEAN, env \in Envs :
        \A settingsEnv \in SettingsEnvs(jsonData) :
            \A o \in {importMaps(localStorage, nextId, now, jsonData, replace,
                                 env, settingsEnv)} :
                /\ o.error # ""
                /\ o.ls[STORAGE_KEY] = localStorage[STORAGE_KEY]
                /\ o.ls[SETTINGS_KEY] = localStorage[SETTINGS_KEY]

\* A malformed import has ended with its error on a store holding maps and
\* settings.
C16_Witness ==
    /\ ret.op = "import"
    /\ ret.error \in {ErrParse, ErrFormat}
    /\ Len(Collection) > 0
    /\ localStorage[SETTINGS_KEY].kind = "obj"

\* C17: every record an import adds to the collection carries an id that
\* generateMapId produced for it: an id that is not the id of any record of
\* the envelope, not the id of any record the collection held before the
\* import, and not the id of another record added by the same import.
C17_ImportedIdsFresh ==
    \A jsonData \in WellFormedEnvelopes, replace \in BOOLEAN :
        \A o \in {importMaps(localStorage, nextId, now, jsonData, replace, "ok", "ok")} :
            LET before == IF replace THEN <<>> ELSE Collection
                after == getAllMaps(o.ls, "ok")
                added == {i \in 1..Len(after) : after[i] \notin Range(before)}
            IN  /\ \A i \in added :
                       after[i].id \notin Ids(jsonData.maps) \cup Ids(Collection)
                /\ \A i \in added, j \in added : i # j => after[i].id # after[j].id

\* An import has added two records, whose ids are two different generated ids.
C17_Witness ==
    /\ ret.op = "import"
    /\ ret.error = ""
    /\ ret.counts[1] = 2
    /\ Len(Collection) = 2
    /\ \A i \in 1..2 : Collection[i].imported = now /\ Collection[i].id \in 1..MaxIds
    /\ Collection[1].id # Collection[2].id

\* C18: an import that meets no storage failure returns normally, whatever
\* records the envelope holds; with m records in the envelope it returns
\* imported + skipped = m, skipped being the number of records of the envelope
\* that validateMapData rejects; every record of the collection after it is
\* valid; and `total` is the number of records of the collection after the
\* cap was applied: the smaller of MAX_MAPS and (records before + imported).
C18_ImportCounts ==
    \A jsonData \in WellFormedEnvelopes, replace \in BOOLEAN, env \in Envs :
        \A settingsEnv \in SettingsEnvs(jsonData) :
            \A o \in {importMaps(localStorage, nextId, now, jsonData, replace,
                                 env, settingsEnv)} :
                LET before == IF replace THEN <<>> ELSE Collection
                    after == getAllMaps(o.ls, "ok")
                    invalid == {i \in 1..Len(jsonData.maps) :
                                   ~validateMapData(jsonData.maps[i])}
                    grown == Len(before) + o.counts[1]
                IN  /\ env = "ok" => o.error = ""
                    /\ o.error = "" =>
                          /\ o.counts[1] + o.counts[2] = Len(jsonData.maps)
                          /\ o.counts[2] = Cardinality(invalid)
                          /\ o.ls[STORAGE_KEY].maps = after
                          /\ o.counts[3] = Len(after)
                          /\ Len(after) = IF grown > MAX_MAPS THEN MAX_MAPS ELSE grown

\* An import of one valid and one invalid record into a full collection has
\* returned <<1, 1, MAX_MAPS>> after the cap removed a record.
C18_Witness ==
    /\ ret.op = "import"
    /\ ret.error = ""
    /\ ret.counts = <<1, 1, MAX_MAPS>>
    /\ ret.evicted = 1

\* C19: from a collection C of at most MAX_MAPS valid maps,
\* importMaps(exportAllMaps(), true) returns normally and leaves a collection
\* with as many maps as C, as many markers in each map and in total, where
\* the i-th map has the title, center, zoom, layer, created and markers of
\* the i-th map of C and an id that no map of C has.
C19_ExportImportRoundTrip ==
    [][RoundTripStep =>
          /\ ret'.error = ""
          /\ Len(Collection') = Len(Collection)
          /\ MarkerTotal(Collection') = MarkerTotal(Collection)
          /\ \A i \in 1..Len(Collection) :
                /\ Len(Collection'[i].markers) = Len(Collection[i].markers)
                /\ Collection'[i].id \notin Ids(Collection)
                /\ Collection'[i].title = Collection[i].title
                /\ Collection'[i].center = Collection[i].center
                /\ Collection'[i].zoom = Collection[i].zoom
                /\ Collection'[i].layer = Collection[i].layer
                /\ Collection'[i].created = Collection[i].created
                /\ Collection'[i].markers = Collection[i].markers]_vars

\* A round trip has rebuilt a full collection, one of whose maps has markers.
C19_Witness ==
    /\ ret.op = "roundtrip"
    /\ ret.error = ""
    /\ Len(Collection) = MAX_MAPS
    /\ \A i \in 1..Len(Collection) : Collection[i].imported = now
    /\ \E i \in 1..Len(Collection) : Len(Collection[i].markers) = 2

\* The settings as getSettings reads them are `before` overridden by `over`.
Overridden(after, before, over) ==
    /\ DOMAIN after = DOMAIN before \cup DOMAIN over
    /\ \A k \in DOMAIN after :
          after[k] = IF k \in DOMAIN over THEN over[k] ELSE before[k]

\* C20 as stated: whenever importMaps returns normally from an envelope that
\* carries settings, then without replace the settings are the previous
\* settings overridden by the settings of the envelope, and with replace the
\* stored settings are what they were.
C20_ImportMergesSettings ==
    \A jsonData \in {e \in WellFormedEnvelopes : e.settings # <<>>},
       replace \in BOOLEAN, env \in Envs, settingsEnv \in {"ok", "quota"} :
        \A o \in {importMaps(localStorage, nextId, now, jsonData, replace,
                             env, settingsEnv)} :
            o.error = "" =>
                IF replace
                THEN o.ls[SETTINGS_KEY] = localStorage[SETTINGS_KEY]
                ELSE Overridden(getSettings(o.ls, "ok"), getSettings(localStorage, "ok"),
                                jsonData.settings[1])

\* C20 amended: the merge happens when the import returns normally and the
\* write of the settings succeeds; when that write fails the import still
\* returns normally and the stored settings are what they were, as they are
\* with replace and when the import ends with an error.
C20_ImportMergesSettingsWhenWritten ==
    \A jsonData \in {e \in WellFormedEnvelopes : e.settings # <<>>},
       replace \in BOOLEAN, env \in Envs, settingsEnv \in {"ok", "quota"} :
        \A o \in {importMaps(localStorage, nextId, now, jsonData, replace,
                             env, settingsEnv)} :
            /\ env = "ok" => o.error = ""
            /\ IF o.error = "" /\ ~replace /\ settingsEnv = "ok"
               THEN Overridden(getSettings(o.ls, "ok"), getSettings(localStorage, "ok"),
                               jsonData.settings[1])
               ELSE o.ls[SETTINGS_KEY] = localStorage[SETTINGS_KEY]

\* An import has merged the settings of its envelope into stored settings:
\* theme and language are the imported ones, the other keys are kept.
C20_Witness ==
    /\ ret.op = "import"
    /\ ret.error = ""
    /\ localStorage[SETTINGS_KEY].kind = "obj"
    /\ getSettings(localStorage, "ok")["theme"] = "blue"
    /\ getSettings(localStorage, "ok")["language"] = "en"
    /\ getSettings(localStorage, "ok")["autoSave"] = "true"

\* C21: getSettings throws nothing and returns an object that has every key
\* of the defaults, with the stored value for the keys the stored object has
\* and the default for the others; when nothing is stored, when the stored
\* text is not JSON and when the store cannot be read, it returns the
\* defaults.
C21_GetSettingsHasEveryDefault ==
    [][\A env \in {"ok", "unavailable"} :
          GetSettingsStep(env) =>
              /\ ret'.error = ""
              /\ \A k \in DOMAIN getDefaultSettings :
                    /\ k \in DOMAIN ret'.result
                    /\ ret'.result[k] =
                          IF /\ env = "ok"
                             /\ localStorage[SETTINGS_KEY].kind = "obj"
                             /\ k \in DOMAIN localStorage[SETTINGS_KEY].obj
                          THEN localStorage[SETTINGS_KEY].obj[k]
                          ELSE getDefaultSettings[k]]_vars

\* getSettings has answered on a store holding the theme alone: the theme is
\* the stored one, the language is the default.
C21_Witness ==
    /\ ret.op = "getSettings"
    /\ localStorage[SETTINGS_KEY].kind = "obj"
    /\ DOMAIN localStorage[SETTINGS_KEY].obj = {"theme"}
    /\ ret.result["theme"] = "x"
    /\ ret.result["language"] = "fr"

\* C22: saveSettings throws nothing; when its write succeeds, getSettings
\* afterwards returns the value of `settings` for every key of `settings`
\* and what it returned before for every other key; when its write fails,
\* the stored settings are what they were.
C22_SaveSettingsMerges ==
    [][\A settings \in Partials, env \in Envs :
          SaveSettingsStep(settings, env) =>
              /\ ret'.error = ""
              /\ IF env = "ok"
                 THEN Overridden(getSettings(localStorage', "ok"),
                                 getSettings(localStorage, "ok"), settings)
                 ELSE localStorage'[SETTINGS_KEY] = localStorage[SETTINGS_KEY]]_vars

\* A saveSettings whose write failed has returned normally.
C22_Witness ==
    /\ ret.op = "saveSettings"
    /\ ret.failed
    /\ ret.error = ""
    /\ localStorage[SETTINGS_KEY].kind = "obj"

\* C23: after a cleanup that succeeds every stored record is a valid map and
\* every marker of every stored map is a valid marker; of the counts
\* <<totalProcessed, validMaps, removedMaps, fixedMaps>> it returns,
\* totalProcessed = validMaps + removedMaps, removedMaps is the number of
\* stored records the cleanup dropped as invalid, and fixedMaps the number of
\* kept maps that lost a marker.
C23_CleanupCounts ==
    [][(CleanupStorage /\ ret'.error = "") =>
          LET kept == SelectSeq(Stored, validateMapData) IN
          /\ \A i \in 1..Len(Stored') :
                /\ validateMapData(Stored'[i])
                /\ \A j \in 1..Len(Stored'[i].markers) :
                      IsValidMarkerClaimed(Stored'[i].markers[j])
          /\ ret'.counts[1] = ret'.counts[2] + ret'.counts[3]
          /\ ret'.counts[3] = Len(Stored) - Len(kept)
          /\ ret'.counts[4] =
                Cardinality({i \in 1..Len(kept) :
                                Len(Stored'[i].markers) < Len(kept[i].markers)})]_vars

C25_UnavailabilitySurfacedOnce ==
    [][\A env \in Envs :
          ListPageStep(env) =>
              IF isStorageAvailable(env)
              THEN /\ UNAVAILABLE_MESSAGE \notin Range(ret'.result)
                   /\ UNAVAILABLE_TOAST \notin Range(ret'.result)
              ELSE /\ ret'.result = <<UNAVAILABLE_MESSAGE>>
                   /\ ret'.path = "errorState"
                   /\ ret'.value = 0
                   /\ ret'.counts = <<>>
                   /\ localStorage' = localStorage]_vars

\* The list page has loaded on a store it could not probe, which holds maps:
\* it shows the error state.
C25_Witness ==
    /\ ret.op = "listInit"
    /\ ret.path = "errorState"
    /\ ret.result = <<UNAVAILABLE_MESSAGE>>
    /\ Len(Collection) > 0

\* C26: in the editor, whatever markers were added through the form and
\* deleted, the ids of the markers of the current map are pairwise
\* distinct, also when two markers were added at the same time of the clock.
C26_MarkerIdsDistinct ==
    PageLoaded =>
        \A i \in 1..Len(marqueurs), j \in 1..Len(marqueurs) :
            i # j => marqueurs[i].id # marqueurs[j].id

\* C27: saveMap, deleteMap, deleteAllMaps, cleanupStorage, migrateMaps and
\* importMaps with replace (the imports of SpecFrame, whose envelopes carry
\* settings) leave the settings entry of the store as it was, and
\* saveSettings leaves the collection entry as it was.
C27_EntriesIndependent ==
    [][/\ ret'.op \in {"save", "delete", "deleteAll", "cleanup", "migrate", "import"}
          => localStorage'[SETTINGS_KEY] = localStorage[SETTINGS_KEY]
       /\ ret'.op = "saveSettings"
          => localStorage'[STORAGE_KEY] = localStorage[STORAGE_KEY]]_vars

\* An import with replace of an envelope has replaced a collection and left
\* stored settings that are not those of the envelope.
C27_Witness ==
    /\ ret.op = "import"
    /\ ret.error = ""
    /\ ret.counts[1] = 1
    /\ Len(Stored) = 1
    /\ localStorage[SETTINGS_KEY] = ObjItem([k \in {"theme"} |-> "dark"])

\* C28: getAll, getById, getRecent, exportAll, getStorageStats and
\* checkIntegrity leave the Collection entry and the Settings entry of the
\* store as they were; the envelope of exportAll has exactly the fields
\* version, exported, settings and maps, version being the version of the
\* repository, exported the time of the call, settings what getSettings
\* returns and maps what getAll returns.
C28_ReadsDoNotWrite ==
    [][/\ ret'.op \in {"getAll", "getById", "getRecent", "exportAll",
                       "getStorageStats", "checkIntegrity"}
          => /\ localStorage'[STORAGE_KEY] = localStorage[STORAGE_KEY]
             /\ localStorage'[SETTINGS_KEY] = localStorage[SETTINGS_KEY]
       /\ \A env \in ReadEnvs :
             ExportAllStep(env)
             => \A e \in {ret'.result[1]} :
                   /\ DOMAIN e = {"version", "exported", "settings", "maps"}
                   /\ e.version = VERSION
                   /\ e.exported = now
                   /\ e.settings = getSettings(localStorage, env)
                   /\ e.maps = getAllMaps(localStorage, env)]_vars

\* A store with a valid map after a map without title and with stored
\* settings, after an export of that one valid map.
C28_Witness ==
    /\ ret.op = "exportAll"
    /\ Len(ret.result[1].maps) = 1
    /\ localStorage[STORAGE_KEY].kind = "seq"
    /\ Len(localStorage[STORAGE_KEY].maps) = 2
    /\ localStorage[SETTINGS_KEY].kind = "obj"

\* The records of maps whose id is not X, in order.
Others(maps, X) == SelectSeq(maps, LAMBDA m : m.id # X)

C30_StoredIdsDistinct ==
    /\ \A i, j \in 1..Len(Collection) : i # j => Collection[i].id # Collection[j].id
    /\ localStorage[STORAGE_KEY].kind = "seq"
       => \A i, j \in 1..Len(localStorage[STORAGE_KEY].maps) :
             i # j => localStorage[STORAGE_KEY].maps[i].id
                        # localStorage[STORAGE_KEY].maps[j].id

\* An import has added a record to a collection that held a saved one.
C30_Witness ==
    /\ ret.op = "import"
    /\ ret.error = ""
    /\ Len(Collection) >= 2
    /\ \E i, j \in 1..Len(Collection) :
          Collection[i].imported = 0 /\ Collection[j].imported # 0

\* C31: whenever saveMap, handed a record with the required fields, returns
\* an id without throwing, getMapById of that id, called right after it,
\* returns the record saved under that id, stamped as saveMap stamped it; so
\* it is too when the collection held MAX_MAPS records before an insert, and
\* whatever the `created` of the record is.
C31_SavedRecordIsReadBack ==
    [][\A mapData \in SaveInputs({"A"}, CreatedEnds) :
          (SaveStep(mapData, "ok", TRUE) /\ ret'.error = "")
          => getMapById(localStorage', "ok", ret'.value)
                = <<StampMap(mapData, nextId, now)>>]_vars

\* C32: a save, a delete, an import without replace or a migration that
\* returns normally and has written leaves in the store what getAllMaps does
\* not return: a stored text that is not JSON or not an array is still the
\* stored item, and every stored record that fails validateMapData is still
\* a record of the stored array.
C32_UnreadEntriesSurvive ==
    [][(/\ ret'.op \in {"save", "delete", "import", "migrate"}
        /\ ret'.error = ""
        /\ ~ret'.failed
        /\ localStorage' # localStorage)
       => \A before \in {localStorage[STORAGE_KEY]}, after \in {localStorage'[STORAGE_KEY]} :
             /\ before.kind \in {"unparseable", "nonseq"} => after = before
             /\ before.kind = "seq"
                => \A i \in 1..Len(before.maps) :
                      ~validateMapData(before.maps[i])
                      => before.maps[i] \in Range(after.maps)]_vars

\* C33: when the stored array holds k records that fail validateMapData, a
\* cleanupStorage that succeeds returns removedMaps = k and totalProcessed =
\* the number of stored records, and checkDataIntegrity on a readable store
\* returns invalidMaps = k.
C33_InvalidMapsAreCounted ==
    [][\A k \in {Len(Stored) - Len(SelectSeq(Stored, validateMapData))} :
          /\ (ret'.op = "cleanup" /\ ret'.error = ""
                 /\ Apply("cleanup", cleanupStorage(localStorage, nextId, "ok")))
             => /\ ret'.counts[3] = k
                /\ ret'.counts[1] = Len(Stored)
          /\ CheckDataIntegrityStep("ok") => ret'.counts[3] = k]_vars

\* C34: runDiagnostics leaves the stored collection entry as it was,
\* whatever the store holds (invalid maps and maps with invalid markers
\* included).
C34_DiagnosticsLeaveTheStore ==
    [][ret'.op = "runDiagnostics"
          => localStorage'[STORAGE_KEY] = localStorage[STORAGE_KEY]]_vars

\* C35: when the saveMap called by autoSave throws, the working copy of the
\* editor is the record autoSave handed to saveMap: its id is the id it had
\* before the call (none for a map never saved), and its version is the
\* version it had.
C35_FailedSaveLeavesRecord ==
    [][\A env \in Envs : \A remOk \in RemOks(env) :
          (/\ CanSave
           /\ AfterAutoSave(autoSave(editor.currentMapData, localStorage, nextId, now,
                                     env, remOk),
                            "autoSave", {})
           /\ ret'.error # "")
          => /\ editor'.currentMapData.id = editor.currentMapData.id
             /\ editor'.currentMapData.version = editor.currentMapData.version]_vars

\* C36: the first autoSave of a new map (no id in the working copy) whose
\* saveMap returns leaves the id saveMap returned in the working copy and
\* in the query of the page's URL; an autoSave of a map that has an id saves
\* under that id, and the collection then holds one record of that id.
C36_FirstSaveRecordsIdAndUrl ==
    [][\A env \in Envs : \A remOk \in RemOks(env) :
          (/\ CanSave
           /\ AfterAutoSave(autoSave(editor.currentMapData, localStorage, nextId, now,
                                     env, remOk),
                            "autoSave", {})
           /\ ret'.error = "")
          => IF editor.currentMapData.id = 0
             THEN /\ editor'.currentMapData.id = ret'.value
                  /\ editor'.url = ret'.value
             ELSE /\ ret'.value = editor.currentMapData.id
                  /\ editor'.currentMapData.id = editor.currentMapData.id
                  /\ Len(SelectSeq(Collection', LAMBDA m : m.id = ret'.value)) = 1]_vars

\* C37: after the edit form of a marker of the list is submitted, the
\* marker has the titre, couleur and icone of the form in the marker list
\* and in the stored record of the map, and the notification shown is one
\* of success.
C37_MarkerEditIsSaved ==
    [][\A markerId \in 1..MaxNow, titre \in {"U"}, couleur \in {"blue"} :
          (/\ FindIndex(marqueurs, markerId) > 0
           /\ ValidateMarkerEditStep(markerId, titre, couleur, "pin"))
          => \A index \in {FindIndex(marqueurs, markerId)},
                stored \in {getMapById(localStorage', "ok", editor'.currentMapData.id)} :
                /\ editor'.currentMapData.markers[index].titre = titre
                /\ editor'.currentMapData.markers[index].couleur = couleur
                /\ stored # <<>>
                /\ Len(stored[1].markers) >= index
                /\ stored[1].markers[index].titre = titre
                /\ stored[1].markers[index].couleur = couleur
                /\ \A t \in editor'.toasts : t.type = "success"]_vars

\* C38: a submission of the add-marker form either shows an error, appends
\* nothing, calls no save and leaves the marker list, the working copy and
\* the store as they were, or appends one marker to the list; every marker
\* of the list has a titre, a latitude in [-90, 90] and a longitude in
\* [-180, 180], so a submission without titre or with a coordinate that is
\* no number or beyond its limits is one of those that append nothing.
C38_AddMarkerValidates ==
    [][(editor'.handler = "handleAddMarker" /\ now' = now)
          => /\ IF \E t \in editor'.toasts : t.type = "error"
                THEN /\ marqueurs' = marqueurs
                     /\ editor'.currentMapData = editor.currentMapData
                     /\ UNCHANGED <<localStorage, nextId, ret>>
                ELSE /\ Len(marqueurs') = Len(marqueurs) + 1
                     /\ SubSeq(marqueurs', 1, Len(marqueurs)) = marqueurs
             /\ \A i \in 1..Len(marqueurs') :
                   /\ marqueurs'[i].titre # ""
                   /\ IsNumber(marqueurs'[i].lat)
                   /\ marqueurs'[i].lat.value \in -90..90
                   /\ IsNumber(marqueurs'[i].lon)
                   /\ marqueurs'[i].lon.value \in -180..180]_vars

\* A submission out of limits has just been refused on a map that holds a
\* marker, stored with it.
C38_Witness ==
    /\ editor.handler = "handleAddMarker"
    /\ editor.toasts = {showToast("Coordonnées hors limites", "error")}
    /\ Len(marqueurs) >= 1
    /\ Len(Collection) = 1
    /\ Collection[1].markers = marqueurs

\* C39: on the list page handleBulkDelete leaves none of the ids that were
\* selected in the stored collection, in allMaps or in filteredMaps, and
\* leaves the selection empty; and after every event of the page the
\* selected ids are ids of allMaps.  Stated for the bulk deletes during
\* which the store works.
C39_BulkDeleteDeletesSelection ==
    [][/\ HandleBulkDeleteStep("ok") =>
            /\ Range(editor.selectedMaps) \cap Ids(getAllMaps(localStorage', "ok")) = {}
            /\ Range(editor.selectedMaps) \cap Ids(editor'.allMaps) = {}
            /\ Range(editor.selectedMaps) \cap Ids(editor'.filteredMaps) = {}
            /\ editor'.selectedMaps = <<>>
       /\ Range(editor'.selectedMaps) \subseteq Ids(editor'.allMaps)]_vars

\* C40: on the list page at most one of the loading, empty and error states
\* and the grid is displayed; the load, when the store can be read, ends
\* with the grid alone if the collection holds a map and with the empty
\* state alone if it holds none, and the error state is displayed after a
\* load only if reading the collection raised, which getAllMaps never lets
\* happen.
C40_OneDisplayState ==
    [][/\ Cardinality(editor'.visible) <= 1
       /\ LoadTimerStep("ok") =>
            /\ Len(Collection) > 0 => editor'.visible = {"mapsGrid"}
            /\ Len(Collection) = 0 => editor'.visible = {"emptyState"}
       /\ editor'.handler = "loadAndDisplayMaps" => "errorState" \notin editor'.visible]_vars

====
